---------------------------- MODULE Spec2Model ----------------------------
(***************************************************************************)
(* A model of the chess engine: the mailbox board with make/unmake and     *)
(* incremental Zobrist hashing (board.cpp), move generation and attack     *)
(* detection, and the iterative-deepening alpha-beta searcher with its     *)
(* transposition table (search.cpp), the line dispatcher (main.cpp) and    *)
(* the browser controller with its API requests (app.js).                  *)
(*                                                                         *)
(* A 64-bit word (uint64_t) is the set of its set bit positions, 0..63, so *)
(* that XOR is symmetric difference and a shift moves the positions.       *)
(***************************************************************************)
EXTENDS Integers, Sequences, FiniteSets, TLC

VARIABLES
    bd,         \* the Board object: board[64], side, castling, ep_square,
                \* halfmove, fullmove, hash, king_sq[2], pos_history[0..count-1]
    path,       \* board driver: the moves made and not yet unmade, each with its
                \* UndoInfo and the board before it
    last,       \* board driver: the operation that ran last, and the board before it
    legal,      \* board driver: the list the last gen_legal_moves call returned
    limit,      \* board driver: the bound on the length of path
    searcher,   \* the Searcher object: tt, tt_hits, tt_stores, nodes, killers,
                \* history, max_time, time_up
    stack,      \* the calls of search, root_search, alphabeta and quiescence in
                \* progress, each with its locals and its position in the code
    ret,        \* what the call that finished last returned
    clock,      \* steady_clock against start_time, as last read: 0 while at most
                \* half of max_time has elapsed, 1 after that, 2 from max_time on
    events,     \* the kinds of return the current search has taken so far
    todo,       \* main: the input lines not yet read
    out,        \* main: the lines printed, each with the search it reports
    app,        \* app.js: the ChessApp object (busy, state) and what the page shows
    calls,      \* app.js: the async calls in progress, each with its position in
                \* the code and the request it waits for
    server      \* the game the backend holds

boardVars == <<path, last, legal, limit>>

searchVars == <<searcher, stack, ret, clock, events, todo, out>>

appVars == <<app, calls, server>>

vars == <<bd, path, last, legal, limit, searcher, stack, ret, clock, events, todo, out,
          app, calls, server>>

\* no game on the backend
NoGame == [rev |-> 0, turn |-> "white", is_game_over |-> FALSE]

\* the page is not loaded: there is no ChessApp
AppNotLoaded ==
    /\ app = [busy |-> FALSE, state |-> <<>>, screen |-> "none", modal |-> FALSE]
    /\ calls = <<>>
    /\ server = NoGame

----------------------------------------------------------------------------
(* types.h: pieces, sides, flags, limits, direction tables *)

PT_PAWN == 1
PT_KNIGHT == 2
PT_BISHOP == 3
PT_ROOK == 4
PT_QUEEN == 5
PT_KING == 6
W_PAWN == 1
B_PAWN == -1
W_KING == 6
B_KING == -6
WHITE_SIDE == 0
BLACK_SIDE == 1
FL_CASTLE == 1
FL_EP == 2
FL_DOUBLE == 4
MAX_HISTORY == 1024

KNIGHT_DIRS == <<17, 15, 10, 6, -6, -10, -15, -17>>
BISHOP_DIRS == <<9, 7, -7, -9>>
ROOK_DIRS == <<8, 1, -1, -8>>
KING_DIRS == <<1, -1, 8, -8, 9, 7, -7, -9>>

Abs(x) == IF x < 0 THEN -x ELSE x
sq_file(s) == s % 8
sq_rank(s) == s \div 8
make_sq(f, r) == r * 8 + f
sq_valid(s) == s >= 0 /\ s < 64
piece_type(p) == IF p > 0 THEN p ELSE -p
piece_side(p) == IF p > 0 THEN WHITE_SIDE ELSE BLACK_SIDE
piece_sign(s) == IF s = WHITE_SIDE THEN 1 ELSE -1

\* x & b # 0 for a single-bit mask b
HasBit(x, b) == (x \div b) % 2 = 1
\* x & ~mask on the four castling bits
AndNot(x, mask) ==
    LET keep(b) == IF HasBit(x, b) /\ ~HasBit(mask, b) THEN b ELSE 0
    IN keep(1) + keep(2) + keep(4) + keep(8)

Move(f, t, cap, promo, fl) ==
    [from |-> f, to |-> t, captured |-> cap, promotion |-> promo, flags |-> fl]
NullMove == Move(0, 0, 0, 0, 0)
\* Move::operator== compares from, to and promotion only
MoveEq(a, b) == a.from = b.from /\ a.to = b.to /\ a.promotion = b.promotion
is_null(m) == m.from = m.to

----------------------------------------------------------------------------
(* board.cpp: Zobrist keys *)

\* a 64-bit word is the set of its one bits; XOR keeps the bits set in exactly one
Xor(a, b) == {x \in 0..63 : (x \in a) # (x \in b)}
Shl(a, k) == {x + k : x \in {y \in a : y + k < 64}}
Shr(a, k) == {x - k : x \in {y \in a : y >= k}}

xorshift64(s) ==
    LET s1 == Xor(s, Shl(s, 13))
        s2 == Xor(s1, Shr(s1, 7))
    IN Xor(s2, Shl(s2, 17))

\* 0x12345678ABCDEF01, most significant hex digit first
SeedHex == <<1, 2, 3, 4, 5, 6, 7, 8, 10, 11, 12, 13, 14, 15, 0, 1>>
Seed ==
    UNION {{4 * (16 - i) + j : j \in {k \in 0..3 : HasBit(SeedHex[i], <<1, 2, 4, 8>>[k + 1])}}
           : i \in 1..16}

\* init_zobrist: the keys in the order the loops draw them from xorshift64:
\* Z_PIECE[0..12][0..63], Z_SIDE, Z_CASTLE[0..15], Z_EP[0..7].
\* st = [n, s, keys]: n keys still to draw, s the generator's state
RECURSIVE ZobristRun(_)
ZobristRun(st) ==
    IF st.n = 0 THEN st
    ELSE LET s2 == xorshift64(st.s)
         IN ZobristRun([n |-> st.n - 1, s |-> s2, keys |-> Append(st.keys, s2)])

\* the outer loops over Z_PIECE, eight squares at a time
RECURSIVE ZobristRows(_)
ZobristRows(st) ==
    IF st.n = 0 THEN st
    ELSE LET row == ZobristRun([n |-> 8, s |-> st.s, keys |-> <<>>])
         IN ZobristRows([n |-> st.n - 1, s |-> row.s, keys |-> st.keys \o row.keys])

RECURSIVE ZobristPieces(_)
ZobristPieces(st) ==
    IF st.n = 0 THEN st
    ELSE LET p == ZobristRows([n |-> 8, s |-> st.s, keys |-> <<>>])
         IN ZobristPieces([n |-> st.n - 1, s |-> p.s, keys |-> st.keys \o p.keys])

init_zobrist ==
    LET pieces == ZobristPieces([n |-> 13, s |-> Seed, keys |-> <<>>])
        \* Z_SIDE, Z_CASTLE[0..15] and Z_EP[0..7]: 1 + 16 + 8 keys
        rest == ZobristRows([n |-> 3, s |-> pieces.s, keys |-> pieces.keys])
    IN ZobristRun([n |-> 1, s |-> rest.s, keys |-> rest.keys]).keys

\* the tables of keys, each entry as its position in init_zobrist
Z_PIECE(p, s) == p * 64 + s + 1
Z_SIDE == 13 * 64 + 1
Z_CASTLE(c) == 13 * 64 + 2 + c
Z_EP(f) == 13 * 64 + 18 + f

\* Board::piece_index
piece_index(p) == IF p > 0 THEN p ELSE IF p < 0 THEN 6 + (-p) ELSE 0

Squares == [i \in 1..64 |-> i - 1]

\* the XOR of a sequence of words: the bits set in an odd number of them
XorAll(words) ==
    {bit \in 0..63 : Cardinality({i \in 1..Len(words) : bit \in words[i]}) % 2 = 1}

\* h after `h ^= key` for each of the keys, given by their positions
XorKeys(h, keys) == Xor(h, XorAll([i \in 1..Len(keys) |-> init_zobrist[keys[i]]]))

\* the keys of the pieces on the board
PieceKeys(board, occ) == [i \in 1..Len(occ) |-> Z_PIECE(piece_index(board[occ[i]]), occ[i])]

\* Board::compute_hash, as a value
compute_hash(b) ==
    XorKeys({}, PieceKeys(b.board, SelectSeq(Squares, LAMBDA s : b.board[s] # 0))
                \o (IF b.side = BLACK_SIDE THEN <<Z_SIDE>> ELSE <<>>)
                \o <<Z_CASTLE(b.castling)>>
                \o (IF b.ep_square >= 0 THEN <<Z_EP(sq_file(b.ep_square))>> ELSE <<>>))

----------------------------------------------------------------------------
(* board.cpp: FEN.  A FEN is given field by field, the placement and the    *)
(* castling field and the en-passant field each as the sequence of its      *)
(* characters.                                                             *)

PieceOfChar(c) ==
    CASE c = "P" -> 1 [] c = "N" -> 2 [] c = "B" -> 3
      [] c = "R" -> 4 [] c = "Q" -> 5 [] c = "K" -> 6
      [] c = "p" -> -1 [] c = "n" -> -2 [] c = "b" -> -3
      [] c = "r" -> -4 [] c = "q" -> -5 [] c = "k" -> -6
      [] OTHER -> 0
Digits == <<"1", "2", "3", "4", "5", "6", "7", "8">>
DigitOfChar(c) == CHOOSE d \in 1..8 : Digits[d] = c
Files == <<"a", "b", "c", "d", "e", "f", "g", "h">>
FileOfChar(c) == (CHOOSE f \in 1..8 : Files[f] = c) - 1

\* the placement loop of set_fen: st = [i, board, king_sq, sq, wild], i the next
\* character; board[sq] = p is not checked against the bounds of board, wild
\* collects the indices outside 0..63 it has written to
RECURSIVE ParsePieces(_, _)
ParsePieces(pieces, st) ==
    IF st.i > Len(pieces) THEN st
    ELSE LET c == pieces[st.i] IN
         IF c = "/" THEN ParsePieces(pieces, [st EXCEPT !.i = @ + 1, !.sq = @ - 16])
         ELSE IF \E d \in 1..8 : Digits[d] = c
         THEN ParsePieces(pieces, [st EXCEPT !.i = @ + 1, !.sq = @ + DigitOfChar(c)])
         ELSE LET p == PieceOfChar(c)
                  k1 == IF p = W_KING THEN [st.king_sq EXCEPT ![WHITE_SIDE] = st.sq]
                        ELSE st.king_sq
                  k2 == IF p = B_KING THEN [k1 EXCEPT ![BLACK_SIDE] = st.sq] ELSE k1
              IN ParsePieces(pieces,
                    [i |-> st.i + 1,
                     board |-> IF st.sq \in 0..63 THEN [st.board EXCEPT ![st.sq] = p]
                               ELSE st.board,
                     king_sq |-> k2, sq |-> st.sq + 1,
                     wild |-> IF st.sq \in 0..63 THEN st.wild ELSE st.wild \cup {st.sq}])

\* castling |= bit
BitOr(x, bit) == IF bit = 0 \/ HasBit(x, bit) THEN x ELSE x + bit

\* the castling loop of set_fen over the first i characters
RECURSIVE ParseCastle(_, _)
ParseCastle(castle, i) ==
    IF i = 0 THEN 0
    ELSE BitOr(ParseCastle(castle, i - 1),
               CASE castle[i] = "K" -> 1 [] castle[i] = "Q" -> 2
                 [] castle[i] = "k" -> 4 [] castle[i] = "q" -> 8 [] OTHER -> 0)

\* the fields set_fen reads, st the outcome of the placement loop
FenBoard(fen, st) ==
    [board |-> st.board,
     side |-> IF fen.turn = "b" THEN BLACK_SIDE ELSE WHITE_SIDE,
     castling |-> IF fen.castle # <<"-">> THEN ParseCastle(fen.castle, Len(fen.castle)) ELSE 0,
     ep_square |-> IF fen.ep # <<"-">> /\ Len(fen.ep) = 2
                   THEN make_sq(FileOfChar(fen.ep[1]), DigitOfChar(fen.ep[2]) - 1)
                   ELSE -1,
     halfmove |-> fen.halfmove,
     fullmove |-> fen.fullmove,
     hash |-> {},
     king_sq |-> st.king_sq,
     pos_history |-> <<>>]

\* the end of set_fen: compute_hash(), then the hash starts the history
StartHistory(b, h) == [b EXCEPT !.hash = h, !.pos_history = <<h>>]
HashBoard(b) == StartHistory(b, compute_hash(b))

\* memset(board, 0, ...); king_sq[0] = king_sq[1] = -1; int sq = 56
ParsedFen(fen) ==
    ParsePieces(fen.pieces, [i |-> 1, board |-> [s \in 0..63 |-> 0],
                             king_sq |-> [s \in 0..1 |-> -1], sq |-> 56, wild |-> {}])

\* Board::set_fen, as far as its writes stay inside board
set_fen(fen) == HashBoard(FenBoard(fen, ParsedFen(fen)))

----------------------------------------------------------------------------
(* board.cpp: make / unmake *)

\* a faulty UndoInfo that does not save the en-passant square
UndoForgetsEp(b) ==
    [castling |-> b.castling, ep_square |-> -1, halfmove |-> b.halfmove, hash |-> b.hash]

\* the UndoInfo make_move and make_null_move fill
UndoOf(b) ==
    [castling |-> b.castling, ep_square |-> b.ep_square,
     halfmove |-> b.halfmove, hash |-> b.hash]

\* an update that looks at the square a rook leaves, not at the square a move
\* captures on
CastlingKeptOnCapture(c, pt, s, m) ==
    AndNot(AndNot(AndNot(AndNot(AndNot(c,
        IF pt = PT_KING THEN (IF s = WHITE_SIDE THEN 3 ELSE 12) ELSE 0),
        IF m.from = 0 THEN 2 ELSE 0),
        IF m.from = 7 THEN 1 ELSE 0),
        IF m.from = 56 THEN 8 ELSE 0),
        IF m.from = 63 THEN 4 ELSE 0)

\* the castling-rights update of make_move: castling &= ~mask, step by step
CastlingAfter(c, pt, s, m) ==
    AndNot(AndNot(AndNot(AndNot(AndNot(c,
        IF pt = PT_KING THEN (IF s = WHITE_SIDE THEN 3 ELSE 12) ELSE 0),
        IF m.from = 0 \/ m.to = 0 THEN 2 ELSE 0),
        IF m.from = 7 \/ m.to = 7 THEN 1 ELSE 0),
        IF m.from = 56 \/ m.to = 56 THEN 8 ELSE 0),
        IF m.from = 63 \/ m.to = 63 THEN 4 ELSE 0)

\* an update that leaves the old en-passant square when the move is no double push
EpSquareKept(ep_square, m, pt) ==
    IF HasBit(m.flags, FL_DOUBLE) /\ pt = PT_PAWN THEN (m.from + m.to) \div 2 ELSE ep_square

\* the en-passant update of make_move: ep_square = -1, then the skipped square
\* after a double push
EpSquareAfter(ep_square, m, pt) ==
    IF HasBit(m.flags, FL_DOUBLE) /\ pt = PT_PAWN THEN (m.from + m.to) \div 2 ELSE -1

\* a make_move that stores nothing
PushNothing(b) == b

\* the end of make_move: the new hash is stored for repetition detection
PushHistory(b) ==
    IF Len(b.pos_history) < MAX_HISTORY
    THEN [b EXCEPT !.pos_history = Append(@, b.hash)]
    ELSE b

\* Board::make_move: the board after the move (the UndoInfo it fills is UndoOf(b))
make_move(b, m) ==
    LET piece == b.board[m.from]
        pt == IF piece > 0 THEN piece ELSE -piece
        s == IF piece > 0 THEN WHITE_SIDE ELSE BLACK_SIDE
        isEp == HasBit(m.flags, FL_EP)
        isCastle == HasBit(m.flags, FL_CASTLE)
        cap_sq == make_sq(sq_file(m.to), sq_rank(m.from))
        placed == IF m.promotion # 0 THEN m.promotion ELSE piece
        rook == IF piece > 0 THEN PT_ROOK ELSE -PT_ROOK
        rook_from == make_sq(IF sq_file(m.to) = 6 THEN 7 ELSE 0, sq_rank(m.from))
        rook_to == make_sq(IF sq_file(m.to) = 6 THEN 5 ELSE 3, sq_rank(m.from))
        double == HasBit(m.flags, FL_DOUBLE) /\ (piece = W_PAWN \/ piece = B_PAWN)
    IN PushHistory(
       [board |-> [b.board EXCEPT
                      ![m.from] = 0,
                      ![cap_sq] = IF m.captured # 0 /\ isEp THEN 0 ELSE @,
                      ![m.to] = placed,
                      ![rook_from] = IF isCastle THEN 0 ELSE @,
                      ![rook_to] = IF isCastle THEN rook ELSE @],
        side |-> 1 - b.side,
        castling |-> CastlingAfter(b.castling, pt, s, m),
        ep_square |-> EpSquareAfter(b.ep_square, m, pt),
        halfmove |-> IF pt = PT_PAWN \/ m.captured # 0 THEN 0 ELSE b.halfmove + 1,
        fullmove |-> IF 1 - b.side = WHITE_SIDE THEN b.fullmove + 1 ELSE b.fullmove,
        hash |-> XorKeys(b.hash,
                    <<Z_PIECE(piece_index(piece), m.from)>>
                    \o (IF m.captured # 0
                        THEN <<Z_PIECE(piece_index(m.captured), IF isEp THEN cap_sq ELSE m.to)>>
                        ELSE <<>>)
                    \o <<Z_PIECE(piece_index(placed), m.to)>>
                    \o (IF isCastle
                        THEN <<Z_PIECE(piece_index(rook), rook_from),
                               Z_PIECE(piece_index(rook), rook_to)>>
                        ELSE <<>>)
                    \o <<Z_CASTLE(b.castling), Z_CASTLE(CastlingAfter(b.castling, pt, s, m))>>
                    \o (IF b.ep_square >= 0 THEN <<Z_EP(sq_file(b.ep_square))>> ELSE <<>>)
                    \o (IF double THEN <<Z_EP(sq_file((m.from + m.to) \div 2))>> ELSE <<>>)
                    \o <<Z_SIDE>>),
        king_sq |-> IF pt = PT_KING THEN [b.king_sq EXCEPT ![s] = m.to] ELSE b.king_sq,
        pos_history |-> b.pos_history])

\* Board::unmake_move
unmake_move(b, m, undo) ==
    LET side2 == 1 - b.side
        piece == IF m.promotion # 0 THEN piece_sign(side2) * PT_PAWN ELSE b.board[m.to]
        isEp == HasBit(m.flags, FL_EP)
        isCastle == HasBit(m.flags, FL_CASTLE)
        cap_sq == make_sq(sq_file(m.to), sq_rank(m.from))
        rook == piece_sign(side2) * PT_ROOK
        rook_from == make_sq(IF sq_file(m.to) = 6 THEN 7 ELSE 0, sq_rank(m.from))
        rook_to == make_sq(IF sq_file(m.to) = 6 THEN 5 ELSE 3, sq_rank(m.from))
    IN [board |-> [b.board EXCEPT
                      ![m.to] = 0,
                      ![m.from] = piece,
                      ![cap_sq] = IF m.captured # 0 /\ isEp THEN m.captured ELSE @,
                      ![m.to] = IF m.captured # 0 /\ ~isEp THEN m.captured ELSE @,
                      ![rook_from] = IF isCastle THEN rook ELSE @,
                      ![rook_to] = IF isCastle THEN 0 ELSE @],
        side |-> side2,
        castling |-> undo.castling,
        ep_square |-> undo.ep_square,
        halfmove |-> undo.halfmove,
        fullmove |-> IF side2 = BLACK_SIDE THEN b.fullmove - 1 ELSE b.fullmove,
        hash |-> undo.hash,
        king_sq |-> IF piece_type(piece) = PT_KING
                    THEN [b.king_sq EXCEPT ![side2] = m.from] ELSE b.king_sq,
        pos_history |-> IF Len(b.pos_history) > 0
                        THEN SubSeq(b.pos_history, 1, Len(b.pos_history) - 1)
                        ELSE b.pos_history]

\* a faulty make_null_move that leaves the en-passant key in the hash
NullMoveKeepsEpKey(b) ==
    [b EXCEPT !.ep_square = -1, !.side = 1 - b.side, !.hash = XorKeys(b.hash, <<Z_SIDE>>)]

\* Board::make_null_move (its UndoInfo holds ep_square and hash of b)
make_null_move(b) ==
    [b EXCEPT !.ep_square = -1,
              !.side = 1 - b.side,
              !.hash = XorKeys(b.hash,
                          (IF b.ep_square >= 0 THEN <<Z_EP(sq_file(b.ep_square))>> ELSE <<>>)
                          \o <<Z_SIDE>>)]

\* Board::unmake_null_move
unmake_null_move(b, undo) ==
    [b EXCEPT !.side = 1 - b.side, !.ep_square = undo.ep_square, !.hash = undo.hash]

----------------------------------------------------------------------------
(* board.cpp: attack detection *)

\* a jump loop without the test of the file distance
JumpAttackWrapped(board, sq, dirs, maxdf, piece) ==
    \E i \in 1..Len(dirs) :
        LET to == sq + dirs[i]
        IN /\ to >= 0 /\ to < 64
           /\ board[to] = piece

\* one of the jump loops of is_attacked: some offset of dirs leads from sq to a
\* square within maxdf files that holds piece
JumpAttack(board, sq, dirs, maxdf, piece) ==
    \E i \in 1..Len(dirs) :
        LET to == sq + dirs[i]
        IN /\ to >= 0 /\ to < 64
           /\ Abs(sq_file(to) - sq_file(sq)) <= maxdf
           /\ board[to] = piece

\* the diagonal ray loop of is_attacked, from square `to` on
RECURSIVE DiagRay(_, _, _, _)
DiagRay(board, to, d, sign) ==
    IF ~(to >= 0 /\ to < 64) THEN FALSE
    ELSE IF Abs(sq_file(to) - sq_file(to - d)) # 1 THEN FALSE
    ELSE LET p == board[to] IN
         IF p = 0 THEN DiagRay(board, to + d, d, sign)
         ELSE p = sign * PT_BISHOP \/ p = sign * PT_QUEEN

\* the straight ray loop of is_attacked
RECURSIVE StraightRay(_, _, _, _)
StraightRay(board, to, d, sign) ==
    IF ~(to >= 0 /\ to < 64) THEN FALSE
    ELSE IF Abs(d) = 1 /\ sq_rank(to) # sq_rank(to - d) THEN FALSE
    ELSE IF Abs(d) = 8 /\ Abs(sq_file(to) - sq_file(to - d)) # 0 THEN FALSE
    ELSE LET p == board[to] IN
         IF p = 0 THEN StraightRay(board, to + d, d, sign)
         ELSE p = sign * PT_ROOK \/ p = sign * PT_QUEEN

\* Board::is_attacked
is_attacked(b, sq, by_side) ==
    LET sign == piece_sign(by_side)
        board == b.board
        pawn ==
            IF by_side = WHITE_SIDE
            THEN sq_rank(sq) > 0 /\
                 ((sq_file(sq) > 0 /\ board[sq - 9] = W_PAWN) \/
                  (sq_file(sq) < 7 /\ board[sq - 7] = W_PAWN))
            ELSE sq_rank(sq) < 7 /\
                 ((sq_file(sq) > 0 /\ board[sq + 7] = B_PAWN) \/
                  (sq_file(sq) < 7 /\ board[sq + 9] = B_PAWN))
    IN \/ pawn
       \/ JumpAttack(board, sq, KNIGHT_DIRS, 2, sign * PT_KNIGHT)
       \/ JumpAttack(board, sq, KING_DIRS, 1, sign * PT_KING)
       \/ \E i \in 1..4 : DiagRay(board, sq + BISHOP_DIRS[i], BISHOP_DIRS[i], sign)
       \/ \E i \in 1..4 : StraightRay(board, sq + ROOK_DIRS[i], ROOK_DIRS[i], sign)

\* Board::in_check
in_check(b) == is_attacked(b, b.king_sq[b.side], 1 - b.side)

----------------------------------------------------------------------------
(* board.cpp: pseudo-legal move generation, in the order the code emits *)

\* the concatenation of Op(seq[1]), ..., Op(seq[n])
FlatMap(Op(_), seq) ==
    LET f[i \in 0..Len(seq)] == IF i = 0 THEN <<>> ELSE f[i - 1] \o Op(seq[i])
    IN f[Len(seq)]

PieceSquares(b, piece) == SelectSeq(Squares, LAMBDA s : b.board[s] = piece)

Promotions(sq, to, cap, sign) ==
    <<Move(sq, to, cap, sign * PT_QUEEN, 0), Move(sq, to, cap, sign * PT_ROOK, 0),
      Move(sq, to, cap, sign * PT_BISHOP, 0), Move(sq, to, cap, sign * PT_KNIGHT, 0)>>

\* the body of the square loop of gen_pawn_moves
PawnMovesAt(b, sq) ==
    LET sign == piece_sign(b.side)
        dir == IF b.side = WHITE_SIDE THEN 8 ELSE -8
        start_rank == IF b.side = WHITE_SIDE THEN 1 ELSE 6
        promo_rank == IF b.side = WHITE_SIDE THEN 7 ELSE 0
        f == sq_file(sq)
        r == sq_rank(sq)
        to == sq + dir
        to2 == sq + 2 * dir
        forward ==
            IF to >= 0 /\ to < 64 /\ b.board[to] = 0
            THEN IF sq_rank(to) = promo_rank THEN Promotions(sq, to, 0, sign)
                 ELSE <<Move(sq, to, 0, 0, 0)>> \o
                      (IF r = start_rank /\ b.board[to2] = 0
                       THEN <<Move(sq, to2, 0, 0, FL_DOUBLE)>> ELSE <<>>)
            ELSE <<>>
        capture(cd, cf) ==
            LET t == sq + cd IN
            IF cf < 0 \/ cf > 7 THEN <<>>
            ELSE IF t < 0 \/ t >= 64 THEN <<>>
            ELSE (IF b.board[t] # 0 /\ piece_side(b.board[t]) # b.side
                  THEN (IF sq_rank(t) = promo_rank THEN Promotions(sq, t, b.board[t], sign)
                        ELSE <<Move(sq, t, b.board[t], 0, 0)>>)
                  ELSE <<>>)
                 \o (IF t = b.ep_square THEN <<Move(sq, t, -sign * PT_PAWN, 0, FL_EP)>>
                     ELSE <<>>)
    IN forward \o capture(dir - 1, f - 1) \o capture(dir + 1, f + 1)

gen_pawn_moves(b) ==
    FlatMap(LAMBDA sq : PawnMovesAt(b, sq), PieceSquares(b, piece_sign(b.side) * PT_PAWN))

\* the direction loop shared by gen_knight_moves and gen_king_moves
JumpMovesAt(b, sq, dirs, maxdf) ==
    FlatMap(LAMBDA d :
                LET to == sq + d IN
                IF to < 0 \/ to >= 64 THEN <<>>
                ELSE IF Abs(sq_file(to) - sq_file(sq)) > maxdf THEN <<>>
                ELSE IF b.board[to] = 0 THEN <<Move(sq, to, 0, 0, 0)>>
                ELSE IF piece_side(b.board[to]) # b.side
                THEN <<Move(sq, to, b.board[to], 0, 0)>>
                ELSE <<>>,
            dirs)

gen_knight_moves(b) ==
    FlatMap(LAMBDA sq : JumpMovesAt(b, sq, KNIGHT_DIRS, 2),
            PieceSquares(b, piece_sign(b.side) * PT_KNIGHT))

\* the ray loop of gen_slider_moves, from square `to` on
RECURSIVE SlideRay(_, _, _, _)
SlideRay(b, sq, to, d) ==
    IF ~(to >= 0 /\ to < 64) THEN <<>>
    ELSE IF Abs(sq_file(to) - sq_file(to - d)) > 1 THEN <<>>
    ELSE LET target == b.board[to] IN
         IF target = 0 THEN <<Move(sq, to, 0, 0, 0)>> \o SlideRay(b, sq, to + d, d)
         ELSE IF piece_side(target) # b.side THEN <<Move(sq, to, target, 0, 0)>>
         ELSE <<>>

SliderDirs(piece_t) ==
    IF piece_t = PT_BISHOP THEN BISHOP_DIRS
    ELSE IF piece_t = PT_ROOK THEN ROOK_DIRS ELSE KING_DIRS

gen_slider_moves(b, piece_t) ==
    FlatMap(LAMBDA sq : FlatMap(LAMBDA d : SlideRay(b, sq, sq + d, d), SliderDirs(piece_t)),
            PieceSquares(b, piece_sign(b.side) * piece_t))

\* a generator that does not look at the square the king passes over
CastlingThroughCheck(b) ==
    LET sq == b.king_sq[b.side]
        empty(s) == b.board[s] = 0
        safe(s) == ~is_attacked(b, s, 1 - b.side)
    IN IF is_attacked(b, sq, 1 - b.side) THEN <<>>
       ELSE IF b.side = WHITE_SIDE
       THEN (IF HasBit(b.castling, 1) /\ empty(5) /\ empty(6) /\ safe(6)
             THEN <<Move(4, 6, 0, 0, FL_CASTLE)>> ELSE <<>>)
            \o (IF HasBit(b.castling, 2) /\ empty(3) /\ empty(2) /\ empty(1) /\ safe(2)
                THEN <<Move(4, 2, 0, 0, FL_CASTLE)>> ELSE <<>>)
       ELSE (IF HasBit(b.castling, 4) /\ empty(61) /\ empty(62) /\ safe(62)
             THEN <<Move(60, 62, 0, 0, FL_CASTLE)>> ELSE <<>>)
            \o (IF HasBit(b.castling, 8) /\ empty(59) /\ empty(58) /\ empty(57) /\ safe(58)
                THEN <<Move(60, 58, 0, 0, FL_CASTLE)>> ELSE <<>>)

\* the castling part of gen_king_moves
CastlingMoves(b) ==
    LET sq == b.king_sq[b.side]
        empty(s) == b.board[s] = 0
        safe(s) == ~is_attacked(b, s, 1 - b.side)
    IN IF is_attacked(b, sq, 1 - b.side) THEN <<>>
       ELSE IF b.side = WHITE_SIDE
       THEN (IF HasBit(b.castling, 1) /\ empty(5) /\ empty(6) /\ safe(5) /\ safe(6)
             THEN <<Move(4, 6, 0, 0, FL_CASTLE)>> ELSE <<>>)
            \o (IF HasBit(b.castling, 2) /\ empty(3) /\ empty(2) /\ empty(1)
                   /\ safe(3) /\ safe(2)
                THEN <<Move(4, 2, 0, 0, FL_CASTLE)>> ELSE <<>>)
       ELSE (IF HasBit(b.castling, 4) /\ empty(61) /\ empty(62) /\ safe(61) /\ safe(62)
             THEN <<Move(60, 62, 0, 0, FL_CASTLE)>> ELSE <<>>)
            \o (IF HasBit(b.castling, 8) /\ empty(59) /\ empty(58) /\ empty(57)
                   /\ safe(59) /\ safe(58)
                THEN <<Move(60, 58, 0, 0, FL_CASTLE)>> ELSE <<>>)

gen_king_moves(b) ==
    JumpMovesAt(b, b.king_sq[b.side], KING_DIRS, 1) \o CastlingMoves(b)

\* Board::gen_pseudo_moves
gen_pseudo_moves(b) ==
    gen_pawn_moves(b) \o gen_knight_moves(b) \o gen_slider_moves(b, PT_BISHOP)
    \o gen_slider_moves(b, PT_ROOK) \o gen_slider_moves(b, PT_QUEEN) \o gen_king_moves(b)

\* a faulty round of the loop that looks at the king of the side now to move
LegalStepWrongKing(st, m, made) ==
    [i |-> st.i + 1,
     bd |-> unmake_move(made, m, UndoOf(st.bd)),
     moves |-> IF ~is_attacked(made, made.king_sq[made.side], 1 - made.side)
               THEN Append(st.moves, m) ELSE st.moves]

\* one round of the loop of gen_legal_moves: made is the board after make_move
\* of m; the move is kept when the mover's king is not attacked, then unmade
LegalStep(st, m, made) ==
    [i |-> st.i + 1,
     bd |-> unmake_move(made, m, UndoOf(st.bd)),
     moves |-> IF ~is_attacked(made, made.king_sq[1 - made.side], made.side)
               THEN Append(st.moves, m) ELSE st.moves]

\* Board::gen_legal_moves: st = [i, bd, moves] is the loop index, the board (the
\* loop makes and unmakes on the board itself) and the list of legal moves
RECURSIVE LegalLoop(_, _)
LegalLoop(pseudo, st) ==
    IF st.i > Len(pseudo) THEN st
    ELSE LegalLoop(pseudo, LegalStep(st, pseudo[st.i], make_move(st.bd, pseudo[st.i])))

gen_legal_moves(b) == LegalLoop(gen_pseudo_moves(b), [i |-> 1, bd |-> b, moves |-> <<>>])

\* count_repetitions with a scan that stops before the oldest entry (i > 0)
CountSkipsOldest(b) ==
    LET n == Len(b.pos_history)
    IN Cardinality({i \in 1..(n - 3) : (n - 3 - i) % 2 = 0 /\ b.pos_history[i + 1] = b.hash})

\* Board::count_repetitions
count_repetitions(b) ==
    LET n == Len(b.pos_history)
    IN Cardinality({i \in 0..(n - 3) : (n - 3 - i) % 2 = 0 /\ b.pos_history[i + 1] = b.hash})

\* Board::is_draw
is_draw(b) == b.halfmove >= 100 \/ count_repetitions(b) >= 2

----------------------------------------------------------------------------
(* search.cpp: is_endgame *)

CountPieces(b, types) == Cardinality({s \in 0..63 : piece_type(b.board[s]) \in types})

\* a phase test that counts the queens and the minor pieces of each side apart
is_endgame_per_side(b) ==
    LET queens(sign) == Cardinality({s \in 0..63 : b.board[s] = sign * PT_QUEEN})
        minors(sign) == Cardinality({s \in 0..63 : b.board[s] \in {sign * PT_KNIGHT,
                                                                  sign * PT_BISHOP}})
    IN \/ queens(1) = 0
       \/ queens(-1) = 0
       \/ \A sign \in {1, -1} : queens(sign) <= 2 /\ minors(sign) <= 2

is_endgame(b) ==
    LET queens == CountPieces(b, {PT_QUEEN})
        minors == CountPieces(b, {PT_KNIGHT, PT_BISHOP})
    IN queens = 0 \/ (queens <= 2 /\ minors <= 2)

----------------------------------------------------------------------------
(* board.cpp: capture generation for quiescence *)

\* the body of the square loop of gen_pawn_captures
PawnCapturesAt(b, sq) ==
    LET sign == piece_sign(b.side)
        dir == IF b.side = WHITE_SIDE THEN 8 ELSE -8
        promo_rank == IF b.side = WHITE_SIDE THEN 7 ELSE 0
        f == sq_file(sq)
        fwd == sq + dir
        push ==
            IF fwd >= 0 /\ fwd < 64 /\ b.board[fwd] = 0 /\ sq_rank(fwd) = promo_rank
            THEN <<Move(sq, fwd, 0, sign * PT_QUEEN, 0)>> ELSE <<>>
        capture(cd, cf) ==
            LET t == sq + cd IN
            IF cf < 0 \/ cf > 7 THEN <<>>
            ELSE IF t < 0 \/ t >= 64 THEN <<>>
            ELSE (IF b.board[t] # 0 /\ piece_side(b.board[t]) # b.side
                  THEN (IF sq_rank(t) = promo_rank
                        THEN <<Move(sq, t, b.board[t], sign * PT_QUEEN, 0)>>
                        ELSE <<Move(sq, t, b.board[t], 0, 0)>>)
                  ELSE <<>>)
                 \o (IF t = b.ep_square THEN <<Move(sq, t, -sign * PT_PAWN, 0, FL_EP)>>
                     ELSE <<>>)
    IN push \o capture(dir - 1, f - 1) \o capture(dir + 1, f + 1)

gen_pawn_captures(b) ==
    FlatMap(LAMBDA sq : PawnCapturesAt(b, sq), PieceSquares(b, piece_sign(b.side) * PT_PAWN))

\* the direction loop shared by gen_knight_captures and gen_king_captures
JumpCapturesAt(b, sq, dirs, maxdf) ==
    FlatMap(LAMBDA d :
                LET to == sq + d IN
                IF to < 0 \/ to >= 64 THEN <<>>
                ELSE IF Abs(sq_file(to) - sq_file(sq)) > maxdf THEN <<>>
                ELSE IF b.board[to] # 0 /\ piece_side(b.board[to]) # b.side
                THEN <<Move(sq, to, b.board[to], 0, 0)>>
                ELSE <<>>,
            dirs)

gen_knight_captures(b) ==
    FlatMap(LAMBDA sq : JumpCapturesAt(b, sq, KNIGHT_DIRS, 2),
            PieceSquares(b, piece_sign(b.side) * PT_KNIGHT))

\* the ray loop of gen_slider_captures, from square `to` on
RECURSIVE CaptureRay(_, _, _, _)
CaptureRay(b, sq, to, d) ==
    IF ~(to >= 0 /\ to < 64) THEN <<>>
    ELSE IF Abs(sq_file(to) - sq_file(to - d)) > 1 THEN <<>>
    ELSE IF b.board[to] = 0 THEN CaptureRay(b, sq, to + d, d)
    ELSE IF piece_side(b.board[to]) # b.side THEN <<Move(sq, to, b.board[to], 0, 0)>>
    ELSE <<>>

gen_slider_captures(b, piece_t) ==
    FlatMap(LAMBDA sq : FlatMap(LAMBDA d : CaptureRay(b, sq, sq + d, d), SliderDirs(piece_t)),
            PieceSquares(b, piece_sign(b.side) * piece_t))

gen_king_captures(b) == JumpCapturesAt(b, b.king_sq[b.side], KING_DIRS, 1)

\* Board::gen_captures
gen_captures(b) ==
    gen_pawn_captures(b) \o gen_knight_captures(b) \o gen_slider_captures(b, PT_BISHOP)
    \o gen_slider_captures(b, PT_ROOK) \o gen_slider_captures(b, PT_QUEEN)
    \o gen_king_captures(b)

----------------------------------------------------------------------------
(* search.cpp: piece-square tables (a8 = index 0) and evaluation *)

MAX_PLY == 128
INF_SCORE == 100000
MATE_SCORE == 99000

PieceValues == <<0, 100, 320, 330, 500, 900, 20000>>
PIECE_VAL(pt) == PieceValues[pt + 1]

mirror_sq(s) == make_sq(sq_file(s), 7 - sq_rank(s))

PST_PAWN ==
    <<  0,   0,   0,   0,   0,   0,   0,   0,
       50,  50,  50,  50,  50,  50,  50,  50,
       10,  10,  20,  30,  30,  20,  10,  10,
        5,   5,  10,  25,  25,  10,   5,   5,
        0,   0,   0,  20,  20,   0,   0,   0,
        5,  -5, -10,   0,   0, -10,  -5,   5,
        5,  10,  10, -20, -20,  10,  10,   5,
        0,   0,   0,   0,   0,   0,   0,   0>>

PST_KNIGHT ==
    <<-50, -40, -30, -30, -30, -30, -40, -50,
      -40, -20,   0,   0,   0,   0, -20, -40,
      -30,   0,  10,  15,  15,  10,   0, -30,
      -30,   5,  15,  20,  20,  15,   5, -30,
      -30,   0,  15,  20,  20,  15,   0, -30,
      -30,   5,  10,  15,  15,  10,   5, -30,
      -40, -20,   0,   5,   5,   0, -20, -40,
      -50, -40, -30, -30, -30, -30, -40, -50>>

PST_BISHOP ==
    <<-20, -10, -10, -10, -10, -10, -10, -20,
      -10,   0,   0,   0,   0,   0,   0, -10,
      -10,   0,  10,  10,  10,  10,   0, -10,
      -10,   5,   5,  10,  10,   5,   5, -10,
      -10,   0,  10,  10,  10,  10,   0, -10,
      -10,  10,  10,  10,  10,  10,  10, -10,
      -10,   5,   0,   0,   0,   0,   5, -10,
      -20, -10, -10, -10, -10, -10, -10, -20>>

PST_ROOK ==
    <<  0,   0,   0,   0,   0,   0,   0,   0,
        5,  10,  10,  10,  10,  10,  10,   5,
       -5,   0,   0,   0,   0,   0,   0,  -5,
       -5,   0,   0,   0,   0,   0,   0,  -5,
       -5,   0,   0,   0,   0,   0,   0,  -5,
       -5,   0,   0,   0,   0,   0,   0,  -5,
       -5,   0,   0,   0,   0,   0,   0,  -5,
        0,   0,   0,   5,   5,   0,   0,   0>>

PST_QUEEN ==
    <<-20, -10, -10,  -5,  -5, -10, -10, -20,
      -10,   0,   0,   0,   0,   0,   0, -10,
      -10,   0,   5,   5,   5,   5,   0, -10,
       -5,   0,   5,   5,   5,   5,   0,  -5,
        0,   0,   5,   5,   5,   5,   0,  -5,
      -10,   5,   5,   5,   5,   5,   0, -10,
      -10,   0,   5,   0,   0,   0,   0, -10,
      -20, -10, -10,  -5,  -5, -10, -10, -20>>

PST_KING_MG ==
    <<-30, -40, -40, -50, -50, -40, -40, -30,
      -30, -40, -40, -50, -50, -40, -40, -30,
      -30, -40, -40, -50, -50, -40, -40, -30,
      -30, -40, -40, -50, -50, -40, -40, -30,
      -20, -30, -30, -40, -40, -30, -30, -20,
      -10, -20, -20, -20, -20, -20, -20, -10,
       20,  20,   0,   0,   0,   0,  20,  20,
       20,  30,  10,   0,   0,  10,  30,  20>>

PST_KING_EG ==
    <<-50, -40, -30, -20, -20, -30, -40, -50,
      -30, -20, -10,   0,   0, -10, -20, -30,
      -30, -10,  20,  30,  30,  20, -10, -30,
      -30, -10,  30,  40,  40,  30, -10, -30,
      -30, -10,  30,  40,  40,  30, -10, -30,
      -30, -10,  20,  30,  30,  20, -10, -30,
      -30, -30,   0,   0,   0,   0, -30, -30,
      -50, -30, -30, -30, -30, -30, -30, -50>>

PST_TABLE == <<PST_PAWN, PST_KNIGHT, PST_BISHOP, PST_ROOK, PST_QUEEN, PST_KING_MG>>

\* F(0) + ... + F(7), and the sum of F over the 64 squares
Sum8(F(_)) == F(0) + F(1) + F(2) + F(3) + F(4) + F(5) + F(6) + F(7)
SumSquares(F(_)) == Sum8(LAMBDA r : Sum8(LAMBDA f : F(make_sq(f, r))))

\* the table entry of a piece of type pt: the king has its own table in the endgame
PstValue(pt, endgame, idx) ==
    IF pt = PT_KING /\ endgame THEN PST_KING_EG[idx + 1] ELSE PST_TABLE[pt][idx + 1]

\* a term that reads the tables at sq for both colours
PieceTermUnmirrored(p, endgame, sq) ==
    IF p = 0 THEN 0
    ELSE IF p > 0 THEN PIECE_VAL(p) + PstValue(p, endgame, sq)
    ELSE -(PIECE_VAL(-p) + PstValue(-p, endgame, sq))

\* material and piece-square term of the piece p on sq, from White's side
PieceTerm(p, endgame, sq) ==
    IF p = 0 THEN 0
    ELSE IF p > 0 THEN PIECE_VAL(p) + PstValue(p, endgame, mirror_sq(sq))
    ELSE -(PIECE_VAL(-p) + PstValue(-p, endgame, sq))

CountPiece(b, piece) == Cardinality({s \in 0..63 : b.board[s] = piece})

\* white_pawn_files / black_pawn_files: the number of pawns on each file
PawnFiles(b, pawn) ==
    [f \in 0..7 |-> Cardinality({r \in 0..7 : b.board[make_sq(f, r)] = pawn})]

BishopPair(b) ==
    (IF CountPiece(b, PT_BISHOP) >= 2 THEN 30 ELSE 0)
    - (IF CountPiece(b, -PT_BISHOP) >= 2 THEN 30 ELSE 0)

HasAdjacent(pf, f) == (f > 0 /\ pf[f - 1] > 0) \/ (f < 7 /\ pf[f + 1] > 0)

\* doubled and isolated pawns on file f
FileTerm(wf, bf, f) ==
    (IF wf[f] > 1 THEN -(10 * (wf[f] - 1)) ELSE 0)
    + (IF bf[f] > 1 THEN 10 * (bf[f] - 1) ELSE 0)
    + (IF wf[f] > 0 /\ ~HasAdjacent(wf, f) THEN -15 ELSE 0)
    + (IF bf[f] > 0 /\ ~HasAdjacent(bf, f) THEN 15 ELSE 0)

Max(a, b) == IF a > b THEN a ELSE b
Min(a, b) == IF a < b THEN a ELSE b

\* no pawn of the other colour on the ranks rs of the files f-1..f+1
NoPawnAhead(b, pawn, f, rs) ==
    \A rr \in rs : \A ff \in Max(0, f - 1)..Min(7, f + 1) : b.board[make_sq(ff, rr)] # pawn

PassedTerm(b, sq) ==
    IF b.board[sq] = W_PAWN
    THEN (IF NoPawnAhead(b, B_PAWN, sq_file(sq), (sq_rank(sq) + 1)..7)
          THEN 20 + 10 * sq_rank(sq) ELSE 0)
    ELSE IF b.board[sq] = B_PAWN
    THEN (IF NoPawnAhead(b, W_PAWN, sq_file(sq), 0..(sq_rank(sq) - 1))
          THEN -(20 + 10 * (7 - sq_rank(sq))) ELSE 0)
    ELSE 0

\* rook on an open or semi-open file
RookTerm(p, wf, bf, f) ==
    IF piece_type(p) # PT_ROOK THEN 0
    ELSE IF p > 0
    THEN (IF wf[f] = 0 /\ bf[f] = 0 THEN 20 ELSE IF wf[f] = 0 THEN 10 ELSE 0)
    ELSE (IF wf[f] = 0 /\ bf[f] = 0 THEN -20 ELSE IF bf[f] = 0 THEN -10 ELSE 0)

\* the pawn shield of the king of side s: own pawns one and two ranks ahead
\* on the king's file and the files next to it
ShieldCount(b, kf, kr, pawn, dir) ==
    Cardinality({x \in (-1..1) \X (1..2) :
                    /\ kf + x[1] >= 0 /\ kf + x[1] <= 7
                    /\ kr + x[2] * dir >= 0 /\ kr + x[2] * dir < 8
                    /\ b.board[make_sq(kf + x[1], kr + x[2] * dir)] = pawn})

ShieldTerm(b, s) ==
    IF s = WHITE_SIDE
    THEN 10 * ShieldCount(b, sq_file(b.king_sq[s]), sq_rank(b.king_sq[s]), W_PAWN, 1)
    ELSE -(10 * ShieldCount(b, sq_file(b.king_sq[s]), sq_rank(b.king_sq[s]), B_PAWN, -1))

EvalTerms(b, endgame, wf, bf) ==
    SumSquares(LAMBDA sq : PieceTerm(b.board[sq], endgame, sq) + PassedTerm(b, sq)
                           + RookTerm(b.board[sq], wf, bf, sq_file(sq)))
    + BishopPair(b)
    + Sum8(LAMBDA f : FileTerm(wf, bf, f))
    + (IF endgame THEN 0 ELSE ShieldTerm(b, WHITE_SIDE) + ShieldTerm(b, BLACK_SIDE))

\* Searcher::evaluate: the score from White's side
evaluate(b) == EvalTerms(b, is_endgame(b), PawnFiles(b, W_PAWN), PawnFiles(b, B_PAWN))

----------------------------------------------------------------------------
(* search.cpp: the Searcher; transposition table, time, move ordering *)

TT_EXACT == 0
TT_LOWER == 1
TT_UPPER == 2

\* main constructs Searcher(64); a TTEntry takes 24 bytes
TT_SIZE_MB == 64
SizeofTTEntry == 24

\* the constructor rounds the entry count down to a power of two, 2^bits
RECURSIVE TableBits(_, _, _)
TableBits(size, entries, bits) ==
    IF size * 2 <= entries THEN TableBits(size * 2, entries, bits + 1) ELSE bits

tt_bits == TableBits(1, (TT_SIZE_MB * 1024 * 1024) \div SizeofTTEntry, 0)

\* key & tt_mask: the low bits of the key
TTIndex(key) == {x \in 0..(tt_bits - 1) : x \in key}

\* a slot never written: the constructor zeroes the table
EmptyEntry == [key |-> {}, score |-> 0, depth |-> 0, flag |-> TT_EXACT, best |-> NullMove]

\* Searcher::Searcher: tt holds the slots written so far
NewSearcher ==
    [tt |-> <<>>, tt_hits |-> 0, tt_stores |-> 0, nodes |-> 0,
     killers |-> <<>>, history |-> <<>>, max_time |-> 0, time_up |-> FALSE]

TTAt(tt, idx) == IF idx \in DOMAIN tt THEN tt[idx] ELSE EmptyEntry

\* the conversions (int16_t)score and (int8_t)depth
Int16(x) == ((x + 32768) % 65536) - 32768
Int8(x) == ((x + 128) % 256) - 128

\* a tt_store that keeps an entry of the same depth
TTStoreDeeperOnly(sr, key, depth, score, flag, best) ==
    IF TTAt(sr.tt, TTIndex(key)).key # key \/ depth > TTAt(sr.tt, TTIndex(key)).depth
    THEN [sr EXCEPT !.tt = (TTIndex(key) :> [key |-> key, score |-> Int16(score),
                                             depth |-> Int8(depth), flag |-> flag,
                                             best |-> best]) @@ @,
                    !.tt_stores = @ + 1]
    ELSE sr

\* Searcher::tt_store
tt_store(sr, key, depth, score, flag, best) ==
    IF TTAt(sr.tt, TTIndex(key)).key # key \/ depth >= TTAt(sr.tt, TTIndex(key)).depth
    THEN [sr EXCEPT !.tt = (TTIndex(key) :> [key |-> key, score |-> Int16(score),
                                             depth |-> Int8(depth), flag |-> flag,
                                             best |-> best]) @@ @,
                    !.tt_stores = @ + 1]
    ELSE sr

\* Searcher::tt_probe on the slot e: the returned flag, the score and the move
\* it writes through its reference parameters (best stays the caller's Move())
ProbeEntry(e, key, depth, alpha, beta) ==
    IF e.key # key THEN [hit |-> FALSE, score |-> 0, best |-> NullMove]
    ELSE [hit |-> /\ e.depth >= depth
                  /\ \/ e.flag = TT_EXACT
                     \/ e.flag = TT_LOWER /\ e.score >= beta
                     \/ e.flag = TT_UPPER /\ e.score <= alpha,
          score |-> e.score, best |-> e.best]

tt_probe(sr, key, depth, alpha, beta) ==
    ProbeEntry(TTAt(sr.tt, TTIndex(key)), key, depth, alpha, beta)

\* Searcher::check_time; clk is what the clock shows: 0 while at most half of
\* max_time has elapsed, 1 after that, 2 once max_time has elapsed
check_time(sr, clk) ==
    IF sr.max_time <= 0 THEN sr
    ELSE IF clk = 2 THEN [sr EXCEPT !.time_up = TRUE] ELSE sr

\* nodes++; if ((nodes & 4095) == 0) check_time();
CountNode(sr, clk) ==
    IF (sr.nodes + 1) % 4096 = 0
    THEN check_time([sr EXCEPT !.nodes = @ + 1], clk)
    ELSE [sr EXCEPT !.nodes = @ + 1]

\* the clock reading CountNode leaves behind
ClockAfterNode(sr, seen, clk) ==
    IF (sr.nodes + 1) % 4096 = 0 /\ sr.max_time > 0 THEN clk ELSE seen

KillerAt(sr, ply, k) == IF ply \in DOMAIN sr.killers THEN sr.killers[ply][k] ELSE NullMove

HistoryAt(sr, side, from, to) ==
    IF <<side, from, to>> \in DOMAIN sr.history THEN sr.history[<<side, from, to>>] ELSE 0

\* a scoring that gives every promotion without capture the same score
MoveScoreFlatPromotion(b, sr, m, ply, tt_move) ==
    IF MoveEq(m, tt_move) THEN 10000000
    ELSE IF m.captured # 0
    THEN 5000000 + PIECE_VAL(piece_type(m.captured)) * 10
         - PIECE_VAL(piece_type(b.board[m.from]))
    ELSE IF m.promotion # 0 THEN 4500000
    ELSE IF ply < MAX_PLY /\ MoveEq(m, KillerAt(sr, ply, 1)) THEN 4000000
    ELSE IF ply < MAX_PLY /\ MoveEq(m, KillerAt(sr, ply, 2)) THEN 3900000
    ELSE HistoryAt(sr, piece_side(b.board[m.from]), m.from, m.to)

\* the score score_moves gives the move m
MoveScore(b, sr, m, ply, tt_move) ==
    IF MoveEq(m, tt_move) THEN 10000000
    ELSE IF m.captured # 0
    THEN 5000000 + PIECE_VAL(piece_type(m.captured)) * 10
         - PIECE_VAL(piece_type(b.board[m.from]))
    ELSE IF m.promotion # 0 THEN 4500000 + PIECE_VAL(piece_type(m.promotion))
    ELSE IF ply < MAX_PLY /\ MoveEq(m, KillerAt(sr, ply, 1)) THEN 4000000
    ELSE IF ply < MAX_PLY /\ MoveEq(m, KillerAt(sr, ply, 2)) THEN 3900000
    ELSE HistoryAt(sr, piece_side(b.board[m.from]), m.from, m.to)

\* Searcher::score_moves
score_moves(b, sr, moves, ply, tt_move) ==
    [i \in 1..Len(moves) |-> MoveScore(b, sr, moves[i], ply, tt_move)]

\* the index sort_moves finds: the first one, from start on, with the highest score
BestIndex(scores, start) ==
    CHOOSE i \in start..Len(scores) :
        /\ \A j \in start..Len(scores) : scores[j] <= scores[i]
        /\ \A j \in start..(i - 1) : scores[j] < scores[i]

Swap(seq, i, j) == [seq EXCEPT ![i] = seq[j], ![j] = seq[i]]

SwapBoth(ms, i, j) == [moves |-> Swap(ms.moves, i, j), scores |-> Swap(ms.scores, i, j)]

\* Searcher::sort_moves on the lists ms = [moves, scores]
sort_moves(ms, start) == SwapBoth(ms, start, BestIndex(ms.scores, start))

\* the killer and history update of a quiet move that cut off
AddKiller(sr, ply, m) ==
    IF MoveEq(m, KillerAt(sr, ply, 1)) THEN sr
    ELSE [sr EXCEPT !.killers = (ply :> <<m, KillerAt(sr, ply, 1)>>) @@ @]

\* a history that is never aged
NeverAged(sr, k) == sr

Aged(sr, k) ==
    IF sr.history[k] > 1000000
    THEN [sr EXCEPT !.history = [x \in DOMAIN @ |-> @[x] \div 2]]
    ELSE sr

AddHistory(sr, ms, m, depth) ==
    Aged([sr EXCEPT !.history = (<<ms, m.from, m.to>> :>
                                    (HistoryAt(sr, ms, m.from, m.to) + depth * depth)) @@ @],
         <<ms, m.from, m.to>>)

CutoffUpdate(sr, b, m, ply, depth) ==
    IF m.captured = 0 /\ m.promotion = 0 /\ ply < MAX_PLY
    THEN AddHistory(AddKiller(sr, ply, m), piece_side(b.board[m.from]), m, depth)
    ELSE sr

----------------------------------------------------------------------------
(* search.cpp: the search as a machine.  c = [bd, sr, stack, ret, clock,     *)
(* events] is the board, the Searcher, the stack of the calls in progress,   *)
(* the value the last finished call returned, the clock reading and the      *)
(* events of the search noted so far; f is the frame on top of the stack.    *)
(* A step runs the top frame up to its next call or to its return.           *)

\* what a call returns: alphabeta and quiescence a score, root_search a score
\* and the move it leaves in best_move, search its frame with the result
Score(v) == [kind |-> "value", score |-> v, best |-> NullMove]

Return(c, v) == [c EXCEPT !.stack = SubSeq(@, 1, Len(@) - 1), !.ret = v]

\* the top frame becomes f and calls g
Call(c, f, g) == [c EXCEPT !.stack = Append([@ EXCEPT ![Len(@)] = f], g)]

Note(c, e) == [c EXCEPT !.events = @ \cup {e}]

NoMoves == [moves |-> <<>>, scores |-> <<>>]

RootFrame(depth) ==
    [kind |-> "root_search", pc |-> "enter", depth |-> depth, ms |-> NoMoves, i |-> 0,
     alpha |-> -INF_SCORE, beta |-> INF_SCORE, best_score |-> -INF_SCORE,
     best_move |-> NullMove, undo |-> 0]

AbFrame(depth, alpha, beta, ply, null_ok) ==
    [kind |-> "alphabeta", pc |-> "enter", depth |-> depth, alpha |-> alpha, beta |-> beta,
     ply |-> ply, null_ok |-> null_ok, in_check |-> FALSE, tt_best |-> NullMove,
     ms |-> NoMoves, i |-> 0, best_score |-> -INF_SCORE, best_move |-> NullMove,
     tt_flag |-> TT_UPPER, undo |-> 0]

QsFrame(alpha, beta, ply) ==
    [kind |-> "quiescence", pc |-> "enter", alpha |-> alpha, beta |-> beta, ply |-> ply,
     ms |-> NoMoves, i |-> 0, undo |-> 0]

(* Searcher::quiescence *)

BIG_DELTA == 900

\* the MVV-LVA score of a capture
MvvLva(b, m) ==
    PIECE_VAL(piece_type(m.captured)) * 10 - PIECE_VAL(piece_type(b.board[m.from]))

\* the capture loop from index f.i on, up to the next recursive call
RECURSIVE QsNext(_, _)

QsMade(c, f, made) ==
    IF is_attacked(made, made.king_sq[1 - made.side], made.side)
    THEN QsNext(Note([c EXCEPT !.bd = unmake_move(made, f.ms.moves[f.i], UndoOf(c.bd))],
                     "illegal capture"),
                [f EXCEPT !.i = @ + 1])
    ELSE Call([c EXCEPT !.bd = made], [f EXCEPT !.pc = "child", !.undo = UndoOf(c.bd)],
              QsFrame(-f.beta, -f.alpha, f.ply + 1))

QsSorted(c, f) ==
    IF f.ms.scores[f.i] < -200 /\ ~in_check(c.bd)
    THEN QsNext(c, [f EXCEPT !.i = @ + 1])
    ELSE QsMade(c, f, make_move(c.bd, f.ms.moves[f.i]))

QsNext(c, f) ==
    IF f.i > Len(f.ms.moves) THEN Return(c, Score(f.alpha))
    ELSE QsSorted(c, [f EXCEPT !.ms = sort_moves(@, f.i)])

QsCaptures(c, f, moves) ==
    QsNext(c, [f EXCEPT !.ms = [moves |-> moves,
                                scores |-> [i \in 1..Len(moves) |-> MvvLva(c.bd, moves[i])]],
                        !.i = 1])

QsStand(c, f, stand_pat) ==
    IF stand_pat >= f.beta THEN Return(c, Score(f.beta))
    ELSE IF stand_pat + BIG_DELTA < Max(stand_pat, f.alpha)
    THEN Return(c, Score(Max(stand_pat, f.alpha)))
    ELSE QsCaptures(c, [f EXCEPT !.alpha = Max(stand_pat, @)], gen_captures(c.bd))

QsCounted(c, f) ==
    IF c.sr.time_up THEN Return(c, Score(0))
    ELSE QsStand(c, f, IF c.bd.side = BLACK_SIDE THEN -evaluate(c.bd) ELSE evaluate(c.bd))

QsEnter(c, f, clk) ==
    QsCounted([c EXCEPT !.sr = CountNode(@, clk),
                        !.clock = ClockAfterNode(c.sr, @, clk)], f)

\* the recursive call has returned c.ret
QsUnmade(c, f, score) ==
    IF c.sr.time_up THEN Return(c, Score(0))
    ELSE IF score >= f.beta THEN Return(c, Score(f.beta))
    ELSE QsNext(c, [f EXCEPT !.alpha = Max(score, @), !.i = @ + 1])

\* a beta cutoff taken before the unmake
QsChildCutoffFirst(c, f) ==
    IF ~c.sr.time_up /\ -c.ret.score >= f.beta THEN Return(c, Score(f.beta))
    ELSE QsUnmade([c EXCEPT !.bd = unmake_move(@, f.ms.moves[f.i], f.undo)], f, -c.ret.score)

QsChild(c, f) ==
    QsUnmade([c EXCEPT !.bd = unmake_move(@, f.ms.moves[f.i], f.undo)], f, -c.ret.score)

QuiescenceStep(c, f, clk) == IF f.pc = "enter" THEN QsEnter(c, f, clk) ELSE QsChild(c, f)

(* Searcher::alphabeta *)

\* tt_store(board.hash, depth, best_score, tt_flag, best_move); return best_score;
AbFinish(c, f) ==
    Return([c EXCEPT !.sr = tt_store(@, c.bd.hash, f.depth, f.best_score, f.tt_flag,
                                     f.best_move)],
           Score(f.best_score))

\* the reduction of a late move
LmrReduction(i, depth) == 1 + (IF i >= 6 THEN 1 ELSE 0) + (IF depth >= 6 THEN 1 ELSE 0)

\* move number f.i (the code's i is f.i - 1) has been made
AbMade(c, f, m) ==
    IF /\ f.i - 1 >= 3 /\ f.depth >= 3 /\ ~f.in_check /\ ~in_check(c.bd)
       /\ m.captured = 0 /\ m.promotion = 0
    THEN Call(c, [f EXCEPT !.pc = "reduced"],
              AbFrame(f.depth - 1 - LmrReduction(f.i - 1, f.depth), -f.alpha - 1, -f.alpha,
                      f.ply + 1, TRUE))
    ELSE Call(c, [f EXCEPT !.pc = "full"],
              AbFrame(f.depth - 1, -f.beta, -f.alpha, f.ply + 1, TRUE))

AbSorted(c, f, ms) ==
    AbMade([c EXCEPT !.bd = make_move(@, ms.moves[f.i])],
           [f EXCEPT !.ms = ms, !.undo = UndoOf(c.bd)], ms.moves[f.i])

\* the move loop from index f.i on, up to the next recursive call
AbNext(c, f) ==
    IF f.i > Len(f.ms.moves) THEN AbFinish(c, f) ELSE AbSorted(c, f, sort_moves(f.ms, f.i))

\* the move m has been unmade and has scored score
AbUnmade(c, f, m, score) ==
    IF c.sr.time_up THEN Return(c, Score(0))
    ELSE IF score > f.alpha /\ score >= f.beta
    THEN AbFinish(Note([c EXCEPT !.sr = CutoffUpdate(@, c.bd, m, f.ply, f.depth)],
                       "beta cutoff"),
                  [f EXCEPT !.best_score = Max(score, @),
                            !.best_move = IF score > f.best_score THEN m ELSE @,
                            !.alpha = score, !.tt_flag = TT_LOWER])
    ELSE AbNext(c, [f EXCEPT !.best_score = Max(score, @),
                             !.best_move = IF score > f.best_score THEN m ELSE @,
                             !.alpha = Max(score, @),
                             !.tt_flag = IF score > f.alpha THEN TT_EXACT ELSE @,
                             !.i = @ + 1])

\* a time-up test placed before the unmake
AbScoredTimeUpFirst(c, f, score) ==
    IF c.sr.time_up THEN Return(c, Score(0))
    ELSE AbUnmade([c EXCEPT !.bd = unmake_move(@, f.ms.moves[f.i], f.undo)], f,
                  f.ms.moves[f.i], score)

AbScored(c, f, score) ==
    AbUnmade([c EXCEPT !.bd = unmake_move(@, f.ms.moves[f.i], f.undo)], f,
             f.ms.moves[f.i], score)

\* the reduced search has returned: re-search at full depth if it beat alpha
AbReduced(c, f) ==
    IF -c.ret.score > f.alpha
    THEN Call(c, [f EXCEPT !.pc = "full"],
              AbFrame(f.depth - 1, -f.beta, -f.alpha, f.ply + 1, TRUE))
    ELSE AbScored(c, f, -c.ret.score)

\* gen_legal_moves has returned r
AbGenerated(c, f, r) ==
    IF r.moves = <<>>
    THEN Return([c EXCEPT !.bd = r.bd],
                Score(IF f.in_check THEN -(MATE_SCORE - f.ply) ELSE 0))
    ELSE AbNext([c EXCEPT !.bd = r.bd],
                [f EXCEPT !.ms = [moves |-> r.moves,
                                  scores |-> score_moves(r.bd, c.sr, r.moves, f.ply,
                                                         f.tt_best)],
                          !.i = 1, !.best_score = -INF_SCORE, !.best_move = r.moves[1],
                          !.tt_flag = TT_UPPER])

AbMoves(c, f) == AbGenerated(c, f, gen_legal_moves(c.bd))

\* null-move pruning that also passes when in check
AbNullInCheck(c, f) ==
    IF f.null_ok /\ f.depth >= 3 /\ ~is_endgame(c.bd)
    THEN Call([c EXCEPT !.bd = make_null_move(@)],
              [f EXCEPT !.pc = "null", !.undo = UndoOf(c.bd)],
              AbFrame(f.depth - 1 - (IF f.depth >= 6 THEN 3 ELSE 2), -f.beta, -f.beta + 1,
                      f.ply + 1, FALSE))
    ELSE AbMoves(c, f)

\* null-move pruning, after the check extension
AbNull(c, f) ==
    IF f.null_ok /\ ~f.in_check /\ f.depth >= 3 /\ ~is_endgame(c.bd)
    THEN Call([c EXCEPT !.bd = make_null_move(@)],
              [f EXCEPT !.pc = "null", !.undo = UndoOf(c.bd)],
              AbFrame(f.depth - 1 - (IF f.depth >= 6 THEN 3 ELSE 2), -f.beta, -f.beta + 1,
                      f.ply + 1, FALSE))
    ELSE AbMoves(c, f)

AbNullScored(c, f, null_score) ==
    IF c.sr.time_up THEN Return(c, Score(0))
    ELSE IF null_score >= f.beta THEN Return(Note(c, "null-move cutoff"), Score(f.beta))
    ELSE AbMoves(c, f)

AbNullReturned(c, f) ==
    AbNullScored([c EXCEPT !.bd = unmake_null_move(@, f.undo)], f, -c.ret.score)

AbChecked(c, f, chk) ==
    AbNull(c, [f EXCEPT !.in_check = chk, !.depth = IF chk THEN @ + 1 ELSE @])

AbProbed(c, f, probe) ==
    IF probe.hit /\ f.ply > 0
    THEN Return([c EXCEPT !.sr.tt_hits = @ + 1], Score(probe.score))
    ELSE IF f.depth <= 0
    THEN [c EXCEPT !.stack[Len(c.stack)] = QsFrame(f.alpha, f.beta, f.ply)]
    ELSE AbChecked(c, [f EXCEPT !.tt_best = probe.best], in_check(c.bd))

AbCounted(c, f) ==
    IF c.sr.time_up THEN Return(c, Score(0))
    ELSE IF is_draw(c.bd) THEN Return(c, Score(0))
    ELSE AbProbed(c, f, tt_probe(c.sr, c.bd.hash, f.depth, f.alpha, f.beta))

AbEnter(c, f, clk) ==
    AbCounted([c EXCEPT !.sr = CountNode(@, clk),
                        !.clock = ClockAfterNode(c.sr, @, clk)], f)

AlphaBetaStep(c, f, clk) ==
    IF f.pc = "enter" THEN AbEnter(c, f, clk)
    ELSE IF f.pc = "null" THEN AbNullReturned(c, f)
    ELSE IF f.pc = "reduced" THEN AbReduced(c, f)
    ELSE AbScored(c, f, -c.ret.score)

(* Searcher::root_search: it returns the score and, through best_move, the move *)

RootFinish(c, f) ==
    Return([c EXCEPT !.sr = tt_store(@, c.bd.hash, f.depth, f.best_score, TT_EXACT,
                                     f.best_move)],
           [kind |-> "value", score |-> f.best_score, best |-> f.best_move])

RootSorted(c, f, ms) ==
    Call([c EXCEPT !.bd = make_move(@, ms.moves[f.i])],
         [f EXCEPT !.ms = ms, !.pc = "child", !.undo = UndoOf(c.bd)],
         AbFrame(f.depth - 1, -f.beta, -f.alpha, 1, TRUE))

RootNext(c, f) ==
    IF f.i > Len(f.ms.moves) THEN RootFinish(c, f)
    ELSE RootSorted(c, f, sort_moves(f.ms, f.i))

RootGenerated(c, f, r) ==
    IF r.moves = <<>>
    THEN Return([c EXCEPT !.bd = r.bd],
                Score(IF in_check(r.bd) THEN -MATE_SCORE ELSE 0))
    ELSE RootNext([c EXCEPT !.bd = r.bd],
                  [f EXCEPT !.ms = [moves |-> r.moves,
                                    scores |-> score_moves(r.bd, c.sr, r.moves, 0,
                                        tt_probe(c.sr, r.bd.hash, 0, -INF_SCORE,
                                                 INF_SCORE).best)],
                            !.i = 1, !.best_move = r.moves[1]])

RootEnter(c, f) == RootGenerated(c, f, gen_legal_moves(c.bd))

RootUnmade(c, f, m, score) ==
    IF c.sr.time_up THEN RootFinish(c, f)
    ELSE RootNext(c, [f EXCEPT !.best_score = Max(score, @),
                               !.best_move = IF score > f.best_score THEN m ELSE @,
                               !.alpha = Max(score, @),
                               !.i = @ + 1])

RootChild(c, f) ==
    RootUnmade([c EXCEPT !.bd = unmake_move(@, f.ms.moves[f.i], f.undo)], f,
               f.ms.moves[f.i], -c.ret.score)

RootSearchStep(c, f) == IF f.pc = "enter" THEN RootEnter(c, f) ELSE RootChild(c, f)

(* Searcher::search *)

\* SearchResult result; best_move = Move(), score = 0, depth = 0
NewResultMinusInf == [best_move |-> NullMove, score |-> -INF_SCORE, depth |-> 0]

NewResult == [best_move |-> NullMove, score |-> 0, depth |-> 0]

\* a start of search that keeps killers and history
ResetKeepsOrdering(sr, max_time_ms) ==
    [sr EXCEPT !.max_time = max_time_ms, !.time_up = FALSE, !.nodes = 0,
               !.tt_hits = 0, !.tt_stores = 0]

\* the start of search: the transposition table is kept
ResetSearch(sr, max_time_ms) ==
    [sr EXCEPT !.max_time = max_time_ms, !.time_up = FALSE, !.nodes = 0,
               !.tt_hits = 0, !.tt_stores = 0, !.killers = <<>>, !.history = <<>>]

\* a loop without the break on time_up
IterationNeverAborted(time_up, depth) == FALSE

\* if (time_up && depth > 1) break;
IterationAborted(time_up, depth) == time_up /\ depth > 1

\* the frame of a call of search; entry is the board at the call, completed the
\* outcome of the last iteration that ran to its end, depths the depths of the
\* iterations that did, aborted the iteration in which the time ran out (0 if
\* none)
SearchFrame(req, b, sr) ==
    [kind |-> "search", pc |-> "enter", req |-> req, max_depth |-> req.max_depth,
     max_time_ms |-> req.max_time, result |-> NewResult, depth |-> 0,
     alpha |-> 0, beta |-> 0, entry |-> b, entry_tt |-> sr.tt,
     completed |-> NewResult, depths |-> <<>>, aborted |-> 0]

\* the fields search fills in before it returns
Reported(result, nodes, tt_hits, tt_stores) ==
    [best_move |-> result.best_move, score |-> result.score, depth |-> result.depth,
     nodes |-> nodes, tt_hits |-> tt_hits, tt_stores |-> tt_stores]

Finish(c, f) ==
    Return(c, [f EXCEPT !.result = Reported(@, c.sr.nodes, c.sr.tt_hits, c.sr.tt_stores)])

StartIteration(c, f, depth) ==
    IF depth > f.max_depth THEN Finish(c, f)
    ELSE Call(c, [f EXCEPT !.depth = depth,
                           !.pc = IF depth >= 5 THEN "aspiration" ELSE "searched",
                           !.alpha = IF depth >= 5 THEN f.result.score - 50 ELSE @,
                           !.beta = IF depth >= 5 THEN f.result.score + 50 ELSE @],
              RootFrame(depth))

\* a loop that stops on the clock whatever the budget
IterationDoneAnyBudget(c, f, score, clk) ==
    IF Abs(score) > MATE_SCORE - 100 THEN Finish(c, f)
    ELSE IF clk >= 1 THEN Finish([c EXCEPT !.clock = clk], f)
    ELSE StartIteration([c EXCEPT !.clock = clk], f, f.depth + 1)

\* the iteration is over and its outcome has been taken: the break on a mate
\* score, then the break on max_time_ms > 0 && elapsed >= max_time_ms
IterationDone(c, f, score, clk) ==
    IF Abs(score) > MATE_SCORE - 100 THEN Finish(c, f)
    ELSE IF f.max_time_ms > 0 /\ clk >= 1 THEN Finish([c EXCEPT !.clock = clk], f)
    ELSE StartIteration([c EXCEPT !.clock = IF f.max_time_ms > 0 THEN clk ELSE @], f,
                        f.depth + 1)

\* root_search has returned the last time in this iteration
IterationSearched(c, f, clk) ==
    IF IterationAborted(c.sr.time_up, f.depth) THEN Finish(c, f)
    ELSE IterationDone(c,
             [f EXCEPT !.result = IF ~is_null(c.ret.best)
                                  THEN [best_move |-> c.ret.best, score |-> c.ret.score,
                                        depth |-> f.depth]
                                  ELSE @,
                       !.completed = IF ~c.sr.time_up
                                     THEN [best_move |-> c.ret.best, score |-> c.ret.score,
                                           depth |-> f.depth]
                                     ELSE @,
                       !.depths = IF ~c.sr.time_up THEN Append(@, f.depth) ELSE @],
             c.ret.score, clk)

\* the first root_search of an iteration with an aspiration window has returned
IterationAspired(c, f, clk) ==
    IF c.sr.time_up THEN Finish(c, f)
    ELSE IF c.ret.score <= f.alpha \/ c.ret.score >= f.beta
    THEN Call(c, [f EXCEPT !.pc = "searched"], RootFrame(f.depth))
    ELSE IterationSearched(c, f, clk)

\* the iteration in which the time ran out, noted when root_search returns
NoteAborted(c, f) ==
    IF c.sr.time_up /\ f.aborted = 0 THEN [f EXCEPT !.aborted = f.depth] ELSE f

\* gen_legal_moves has returned r; junk is what the fields never assigned hold
SearchGenerated(c, f, r, junk) ==
    IF r.moves = <<>>
    THEN Return([c EXCEPT !.bd = r.bd], [f EXCEPT !.result = Reported(@, junk, junk, junk)])
    ELSE StartIteration([c EXCEPT !.bd = r.bd],
                        [f EXCEPT !.result.best_move = r.moves[1],
                                  !.max_depth = IF @ <= 0 THEN 100 ELSE @], 1)

SearchEnter(c, f, junk) ==
    SearchGenerated([c EXCEPT !.sr = ResetSearch(@, f.max_time_ms), !.clock = 0,
                              !.events = {}],
                    f, gen_legal_moves(c.bd), junk)

SearchStep(c, f, clk, junk) ==
    IF f.pc = "enter" THEN SearchEnter(c, f, junk)
    ELSE IF f.pc = "aspiration" THEN IterationAspired(c, NoteAborted(c, f), clk)
    ELSE IterationSearched(c, NoteAborted(c, f), clk)


----------------------------------------------------------------------------
(* The board driver: a board set up by set_fen and then changed only by    *)
(* make_move / unmake_move / make_null_move / unmake_null_move in the      *)
(* nested order the callers (gen_legal_moves, is_legal, the search) use,   *)
(* and read by gen_legal_moves.                                            *)

\* 4k3/3p4/8/4P3/8/8/8/4K3 b - - 0 1: a double push d7d5 lands beside the pawn e5
FenEnPassant ==
    [pieces |-> <<"4", "k", "3", "/", "3", "p", "4", "/", "8", "/", "4", "P", "3", "/",
                  "8", "/", "8", "/", "8", "/", "4", "K", "3">>,
     turn |-> "b", castle |-> <<"-">>, ep |-> <<"-">>, halfmove |-> 0, fullmove |-> 1]

\* r3k2r/8/8/8/8/8/8/R3K2R w KQkq - 0 1: all four castlings, rook moves and rook
\* captures on the corners
FenCastling ==
    [pieces |-> <<"r", "3", "k", "2", "r", "/", "8", "/", "8", "/", "8", "/",
                  "8", "/", "8", "/", "8", "/", "R", "3", "K", "2", "R">>,
     turn |-> "w", castle |-> <<"K", "Q", "k", "q">>, ep |-> <<"-">>,
     halfmove |-> 0, fullmove |-> 1]

\* 1n2k3/P7/8/8/8/8/7p/4K1N1 w - - 0 1: promotions by push and by capture, for both sides
FenPromotion ==
    [pieces |-> <<"1", "n", "2", "k", "3", "/", "P", "7", "/", "8", "/", "8", "/",
                  "8", "/", "8", "/", "7", "p", "/", "4", "K", "1", "N", "1">>,
     turn |-> "w", castle |-> <<"-">>, ep |-> <<"-">>, halfmove |-> 0, fullmove |-> 1]

\* 4k3/4r3/8/8/8/8/4B3/4K3 w - - 0 1: the bishop e2 is pinned, most of its
\* pseudo-legal moves are illegal
FenPinned ==
    [pieces |-> <<"4", "k", "3", "/", "4", "r", "3", "/", "8", "/", "8", "/",
                  "8", "/", "8", "/", "4", "B", "3", "/", "4", "K", "3">>,
     turn |-> "w", castle |-> <<"-">>, ep |-> <<"-">>, halfmove |-> 0, fullmove |-> 1]

\* b6k/1p5p/1P6/8/8/1p4p1/1P4P1/B2QK2B b - - 0 1: a queen and three bishops (not an
\* endgame, so the search makes null moves here); the pawn h7 can push two squares
FenMiddlegame ==
    [pieces |-> <<"b", "6", "k", "/", "1", "p", "5", "p", "/", "1", "P", "6", "/", "8", "/",
                  "8", "/", "1", "p", "4", "p", "1", "/", "1", "P", "4", "P", "1", "/",
                  "B", "2", "Q", "K", "2", "B">>,
     turn |-> "b", castle |-> <<"-">>, ep |-> <<"-">>, halfmove |-> 0, fullmove |-> 1]

\* bk1K4/1p6/1P6/8/8/1p4p1/QP4P1/B6B b - - 0 1: a queen and three bishops again;
\* the white queen can leave a2 and come back in two or in three moves
FenRepetition ==
    [pieces |-> <<"b", "k", "1", "K", "4", "/", "1", "p", "6", "/", "1", "P", "6", "/",
                  "8", "/", "8", "/", "1", "p", "4", "p", "1", "/", "Q", "P", "4", "P",
                  "1", "/", "B", "6", "B">>,
     turn |-> "b", castle |-> <<"-">>, ep |-> <<"-">>, halfmove |-> 0, fullmove |-> 1]

\* k7/p7/P7/8/8/4p2p/4P2P/7K b - - 0 1: an endgame in which each king can only
\* shuttle between two squares
FenShuttle ==
    [pieces |-> <<"k", "7", "/", "p", "7", "/", "P", "7", "/", "8", "/", "8", "/", "4",
                  "p", "2", "p", "/", "4", "P", "2", "P", "/", "7", "K">>,
     turn |-> "b", castle |-> <<"-">>, ep |-> <<"-">>, halfmove |-> 0, fullmove |-> 1]

BoardFens == <<FenEnPassant, FenCastling, FenPromotion, FenPinned, FenMiddlegame>>

\* the longest line of moves made and not yet unmade
MaxPath == 2
\* the same for the lines played from FenRepetition and from FenShuttle
MaxRepPath == 6
MaxShuttlePath == 8

\* the side that has just moved did not leave its king attacked (otherwise the
\* caller unmakes the move at once)
KingSafe(b) == ~is_attacked(b, b.king_sq[1 - b.side], b.side)

\* the moves of a list, as a set
MoveSet(moves) == {moves[i] : i \in 1..Len(moves)}

\* main has constructed the Searcher and read no line
SearcherIdle ==
    /\ searcher = NewSearcher
    /\ stack = <<>>
    /\ ret = Score(0)
    /\ clock = 0
    /\ events = {}
    /\ todo = <<>>
    /\ out = <<>>

InitBoard ==
    /\ \E i \in 1..Len(BoardFens) : bd = set_fen(BoardFens[i])
    /\ path = <<>>
    /\ last = [op |-> "set_fen", m |-> NullMove, before |-> bd]
    /\ legal = <<>>
    /\ limit = MaxPath
    /\ SearcherIdle
    /\ AppNotLoaded

InitRep ==
    /\ \/ bd = set_fen(FenRepetition) /\ limit = MaxRepPath
       \/ bd = set_fen(FenShuttle) /\ limit = MaxShuttlePath
    /\ path = <<>>
    /\ last = [op |-> "set_fen", m |-> NullMove, before |-> bd]
    /\ legal = <<>>
    /\ SearcherIdle
    /\ AppNotLoaded

\* make_move of a generated pseudo-legal move; below the root alphabeta returns
\* from a drawn position at once, while quiescence still tries its captures
MakeMove ==
    /\ Len(path) < limit
    /\ KingSafe(bd)
    /\ \E m \in MoveSet(gen_pseudo_moves(bd)) :
         /\ (path # <<>> /\ is_draw(bd)) => m.captured # 0
         /\ bd' = make_move(bd, m)
         /\ path' = Append(path, [m |-> m, undo |-> UndoOf(bd), null |-> FALSE, before |-> bd])
         /\ last' = [op |-> "make_move", m |-> m, before |-> bd]
    /\ legal' = <<>>
    /\ UNCHANGED limit
    /\ UNCHANGED searchVars
    /\ UNCHANGED appVars

\* unmake_move of the move made last
UnmakeMove ==
    /\ path # <<>>
    /\ ~path[Len(path)].null
    /\ bd' = unmake_move(bd, path[Len(path)].m, path[Len(path)].undo)
    /\ last' = [op |-> "unmake_move", m |-> path[Len(path)].m, before |-> path[Len(path)].before]
    /\ path' = SubSeq(path, 1, Len(path) - 1)
    /\ legal' = <<>>
    /\ UNCHANGED limit
    /\ UNCHANGED searchVars
    /\ UNCHANGED appVars

\* make_null_move, under the conditions alphabeta makes one: not in check, not an
\* endgame, and not right after another null move (null_ok)
MakeNullMove ==
    /\ Len(path) < limit
    /\ KingSafe(bd)
    /\ path # <<>> => (~is_draw(bd) /\ ~path[Len(path)].null)
    /\ ~in_check(bd)
    /\ ~is_endgame(bd)
    /\ bd' = make_null_move(bd)
    /\ path' = Append(path, [m |-> NullMove, undo |-> UndoOf(bd), null |-> TRUE, before |-> bd])
    /\ last' = [op |-> "make_null_move", m |-> NullMove, before |-> bd]
    /\ legal' = <<>>
    /\ UNCHANGED limit
    /\ UNCHANGED searchVars
    /\ UNCHANGED appVars

UnmakeNullMove ==
    /\ path # <<>>
    /\ path[Len(path)].null
    /\ bd' = unmake_null_move(bd, path[Len(path)].undo)
    /\ last' = [op |-> "unmake_null_move", m |-> NullMove, before |-> path[Len(path)].before]
    /\ path' = SubSeq(path, 1, Len(path) - 1)
    /\ legal' = <<>>
    /\ UNCHANGED limit
    /\ UNCHANGED searchVars
    /\ UNCHANGED appVars

\* a call of gen_legal_moves
GenLegal ==
    /\ KingSafe(bd)
    /\ LET r == gen_legal_moves(bd)
       IN bd' = r.bd /\ legal' = r.moves
    /\ last' = [op |-> "gen_legal_moves", m |-> NullMove, before |-> bd]
    /\ UNCHANGED <<path, limit>>
    /\ UNCHANGED searchVars
    /\ UNCHANGED appVars

NextBoard == MakeMove \/ UnmakeMove \/ MakeNullMove \/ UnmakeNullMove \/ GenLegal

SpecBoard == InitBoard /\ [][NextBoard]_vars

NextRep == MakeMove \/ UnmakeMove \/ MakeNullMove \/ UnmakeNullMove

SpecRep == InitRep /\ [][NextRep]_vars

----------------------------------------------------------------------------
(* main.cpp: one search per input line, on one Searcher; the search driver *)

\* what the fields of a SearchResult that were never assigned may hold
Junk == {-1, 0, 1}

Cfg ==
    [bd |-> bd, sr |-> searcher, stack |-> stack, ret |-> ret, clock |-> clock,
     events |-> events]

Apply(c) ==
    /\ bd' = c.bd
    /\ searcher' = c.sr
    /\ stack' = c.stack
    /\ ret' = c.ret
    /\ clock' = c.clock
    /\ events' = c.events

Running(kind) == stack # <<>> /\ stack[Len(stack)].kind = kind

\* what the clock can show when it is read: time only moves forward
Readings(read) == IF read THEN clock..2 ELSE {clock}

\* the request of an input line "fen | max_depth | movetime"
Request(fen, max_depth, movetime) == [fen |-> fen, max_depth |-> max_depth, max_time |-> movetime]

\* main reads a line: Board board; board.set_fen(fen); searcher.search(...)
ReadLine ==
    /\ stack = <<>>
    /\ ret.kind # "search"
    /\ todo # <<>>
    /\ bd' = set_fen(Head(todo).fen)
    /\ stack' = <<SearchFrame(Head(todo), set_fen(Head(todo).fen), searcher)>>
    /\ todo' = Tail(todo)
    /\ UNCHANGED <<searcher, ret, clock, events, out>>
    /\ UNCHANGED boardVars
    /\ UNCHANGED appVars

\* search runs up to its next call of root_search or to its return; after an
\* iteration it reads the clock, whatever the budget
Search ==
    /\ Running("search")
    /\ \E clk \in Readings(stack[Len(stack)].pc # "enter"),
          junk \in IF stack[Len(stack)].pc = "enter" THEN Junk ELSE {0} :
         Apply(SearchStep(Cfg, stack[Len(stack)], clk, junk))
    /\ UNCHANGED <<todo, out>>
    /\ UNCHANGED boardVars
    /\ UNCHANGED appVars

\* root_search runs up to its next call of alphabeta or to its return
RootSearch ==
    /\ Running("root_search")
    /\ Apply(RootSearchStep(Cfg, stack[Len(stack)]))
    /\ UNCHANGED <<todo, out>>
    /\ UNCHANGED boardVars
    /\ UNCHANGED appVars

\* alphabeta runs up to its next call or to its return
AlphaBeta ==
    /\ Running("alphabeta")
    /\ \E clk \in Readings(stack[Len(stack)].pc = "enter" /\ searcher.max_time > 0
                           /\ (searcher.nodes + 1) % 4096 = 0) :
         Apply(AlphaBetaStep(Cfg, stack[Len(stack)], clk))
    /\ UNCHANGED <<todo, out>>
    /\ UNCHANGED boardVars
    /\ UNCHANGED appVars

\* quiescence runs up to its next call or to its return
Quiescence ==
    /\ Running("quiescence")
    /\ \E clk \in Readings(stack[Len(stack)].pc = "enter" /\ searcher.max_time > 0
                           /\ (searcher.nodes + 1) % 4096 = 0) :
         Apply(QuiescenceStep(Cfg, stack[Len(stack)], clk))
    /\ UNCHANGED <<todo, out>>
    /\ UNCHANGED boardVars
    /\ UNCHANGED appVars

\* main prints the result; the line is kept with the request, the board and the
\* table the search started from, the board it left and what it went through
Output ==
    /\ stack = <<>>
    /\ ret.kind = "search"
    /\ out' = Append(out, [req |-> ret.req, result |-> ret.result, entry |-> ret.entry,
                           entry_tt |-> ret.entry_tt, board |-> bd,
                           completed |-> ret.completed, depths |-> ret.depths,
                           aborted |-> ret.aborted,
                           events |-> events])
    /\ ret' = Score(0)
    /\ UNCHANGED <<bd, searcher, stack, clock, events, todo>>
    /\ UNCHANGED boardVars
    /\ UNCHANGED appVars

NextSearch == ReadLine \/ Search \/ RootSearch \/ AlphaBeta \/ Quiescence \/ Output

\* Board(): the board main has before the first set_fen
NewBoard ==
    [board |-> [s \in 0..63 |-> 0], side |-> WHITE_SIDE, castling |-> 0, ep_square |-> -1,
     halfmove |-> 0, fullmove |-> 1, hash |-> {}, king_sq |-> [s \in 0..1 |-> -1],
     pos_history |-> <<>>]

\* main before the first line, with the lines lines to read
MainStarts(lines) ==
    /\ bd = NewBoard
    /\ path = <<>>
    /\ last = [op |-> "Board", m |-> NullMove, before |-> NewBoard]
    /\ legal = <<>>
    /\ limit = 0
    /\ searcher = NewSearcher
    /\ stack = <<>>
    /\ ret = Score(0)
    /\ clock = 0
    /\ events = {}
    /\ todo = lines
    /\ out = <<>>
    /\ AppNotLoaded

----------------------------------------------------------------------------
(* Properties of the board (SpecBoard) *)

\* the fields make_move changes and unmake_move has to restore
SameBoard(a, b) ==
    /\ a.board = b.board
    /\ a.side = b.side
    /\ a.castling = b.castling
    /\ a.ep_square = b.ep_square
    /\ a.halfmove = b.halfmove
    /\ a.fullmove = b.fullmove
    /\ a.hash = b.hash
    /\ a.king_sq = b.king_sq

\* C1: after make_move(m) followed by unmake_move(m), for a pseudo-legal move m,
\* board[0..63], side, castling, ep_square, halfmove, fullmove, hash and king_sq
\* are what they were before the make
MakeUnmakeRestores == last.op = "unmake_move" => SameBoard(bd, last.before)

\* an en-passant capture has been made and unmade
EnPassantUnmade == last.op = "unmake_move" /\ HasBit(last.m.flags, FL_EP)

\* C2: after any sequence of make_move, unmake_move, make_null_move and
\* unmake_null_move from a set_fen position, the incrementally maintained hash
\* is the hash compute_hash gives for the current board
HashIsComputed == bd.hash = compute_hash(bd)

\* a null move has been made in a position with an en-passant square
NullMoveOverEp == last.op = "make_null_move" /\ last.before.ep_square >= 0

\* the board after m does not have the king of the side that moved under attack
LeavesKingSafe(b, m) ==
    ~is_attacked(make_move(b, m), make_move(b, m).king_sq[b.side], 1 - b.side)

\* C3: gen_legal_moves returns exactly the pseudo-legal moves, in their order,
\* after which the mover's king is not attacked, and leaves the board unchanged
LegalMovesExact ==
    last.op = "gen_legal_moves" =>
        /\ legal = SelectSeq(gen_pseudo_moves(last.before),
                             LAMBDA m : LeavesKingSafe(last.before, m))
        /\ bd = last.before

\* gen_legal_moves has dropped some pseudo-legal moves and kept others
SomeMovesDropped ==
    /\ last.op = "gen_legal_moves"
    /\ legal # <<>>
    /\ Len(legal) < Len(gen_pseudo_moves(bd))

----------------------------------------------------------------------------
(* Properties of the repetition count (SpecRep) *)

\* no null move is among the moves made and not yet unmade
NoNullOnPath == \A i \in 1..Len(path) : ~path[i].null

\* the number of earlier entries of the position history that equal the current
\* hash: the last entry is the current position's own, except after a null
\* move, which pushes none
EarlierEqual ==
    LET n == IF path # <<>> /\ path[Len(path)].null
             THEN Len(bd.pos_history) ELSE Len(bd.pos_history) - 1
    IN Cardinality({i \in 1..n : bd.pos_history[i] = bd.hash})

RepetitionsCounted ==
    /\ count_repetitions(bd) = EarlierEqual
    /\ is_draw(bd) <=> (EarlierEqual >= 2 \/ bd.halfmove >= 100)

\* C8 as stated: after any sequence of make_move, unmake_move, make_null_move
\* and unmake_null_move, count_repetitions is the number of earlier history
\* entries equal to the current hash, and is_draw holds exactly when that number
\* is at least 2 or halfmove >= 100
RepetitionsCountedAlways == RepetitionsCounted

\* C8 amended: the same, while no null move is among the moves made and not yet
\* unmade
RepetitionsCountedWithoutNull == NoNullOnPath => RepetitionsCounted

\* a position has occurred for the third time on a line without null moves
ThirdOccurrence == NoNullOnPath /\ count_repetitions(bd) >= 2 /\ is_draw(bd)

----------------------------------------------------------------------------
(* The searches main runs: each line sets the board up and calls search.   *)

\* 6k1/5ppp/8/8/8/8/5PPP/R5K1 w - - 0 1: the rook mates on a8 at once
FenBackRank ==
    [pieces |-> <<"6", "k", "1", "/", "5", "p", "p", "p", "/", "8", "/", "8", "/", "8",
                  "/", "8", "/", "5", "P", "P", "P", "/", "R", "5", "K", "1">>,
     turn |-> "w", castle |-> <<"-">>, ep |-> <<"-">>,
     halfmove |-> 0, fullmove |-> 1]

\* 5Q2/4pNk1/4P2p/5p1P/5Pb1/7B/K7/8 b - - 0 1: a search to depth 4 goes through
\* null-move cutoffs, beta cutoffs, reduced moves and a capture that leaves the king
\* in check
FenEvents ==
    [pieces |-> <<"5", "Q", "2", "/", "4", "p", "N", "k", "1", "/", "4", "P", "2", "p",
                  "/", "5", "p", "1", "P", "/", "5", "P", "b", "1", "/", "7", "B", "/",
                  "K", "7", "/", "8">>,
     turn |-> "b", castle |-> <<"-">>, ep |-> <<"-">>,
     halfmove |-> 0, fullmove |-> 1]

\* 7k/5Q2/6K1/8/8/8/8/8 b - - 0 1: black to move has no legal move and is not in
\* check
FenStalemate ==
    [pieces |-> <<"7", "k", "/", "5", "Q", "2", "/", "6", "K", "1", "/", "8", "/", "8",
                  "/", "8", "/", "8", "/", "8">>,
     turn |-> "b", castle |-> <<"-">>, ep |-> <<"-">>,
     halfmove |-> 0, fullmove |-> 1]

\* R5k1/5ppp/8/8/8/8/5PPP/6K1 b - - 0 1: black to move is mated on the back rank
FenMated ==
    [pieces |-> <<"R", "5", "k", "1", "/", "5", "p", "p", "p", "/", "8", "/", "8", "/",
                  "8", "/", "8", "/", "5", "P", "P", "P", "/", "6", "K", "1">>,
     turn |-> "b", castle |-> <<"-">>, ep |-> <<"-">>,
     halfmove |-> 0, fullmove |-> 1]

\* 6k1/5ppp/8/8/8/8/5PPP/R5K1 w - - 99 1: the back-rank mate with 99 half-moves on
\* the fifty-move clock
FenBackRankFifty ==
    [pieces |-> <<"6", "k", "1", "/", "5", "p", "p", "p", "/", "8", "/", "8", "/", "8",
                  "/", "8", "/", "5", "P", "P", "P", "/", "R", "5", "K", "1">>,
     turn |-> "w", castle |-> <<"-">>, ep |-> <<"-">>,
     halfmove |-> 99, fullmove |-> 1]

\* the depths asked for
ShuttleDepth == 3

EventsDepth == 4

\* searches without a time budget: a zero and a negative budget, max_depth 0 on
\* a position with a mate, roots without a legal move (stalemate and checkmate)
InitUntimed ==
    \E lines \in {<<Request(FenShuttle, ShuttleDepth, 0),
                    Request(FenShuttle, ShuttleDepth - 1, -1)>>,
                  <<Request(FenBackRank, 0, 0)>>,
                  <<Request(FenEvents, EventsDepth, 0)>>,
                  <<Request(FenStalemate, ShuttleDepth, 0)>>,
                  <<Request(FenMated, ShuttleDepth, 0)>>,
                  <<Request(FenBackRankFifty, ShuttleDepth - 1, 0)>>} :
        MainStarts(lines)

SpecUntimed == InitUntimed /\ [][NextSearch]_vars

----------------------------------------------------------------------------
(* Properties of the search without a time budget (SpecUntimed) *)

\* search has returned and main has not yet printed
Returned == stack = <<>> /\ ret.kind = "search"

\* the depths 1 .. n in order
UpTo(n) == [i \in 1..n |-> i]

\* max_depth as search uses it
DepthLimit(max_depth) == IF max_depth <= 0 THEN 100 ELSE max_depth

\* C11: with max_time_ms <= 0 time_up is never set while search runs, and a
\* search from a root with a legal move returns having completed the iterations
\* 1, 2, ... in order, up to max_depth (100 when max_depth is 0) or up to the
\* first one that returned a score with |score| > MATE_SCORE - 100
RunsToDepthWithoutBudget ==
    /\ (searcher.max_time <= 0) => ~searcher.time_up
    /\ (Returned /\ ret.req.max_time <= 0 /\ gen_legal_moves(ret.entry).moves # <<>>) =>
          /\ ret.depths = UpTo(Len(ret.depths))
          /\ ret.result.depth = Len(ret.depths)
          /\ \/ Len(ret.depths) = DepthLimit(ret.req.max_depth)
             \/ Abs(ret.result.score) > MATE_SCORE - 100

\* a search with a negative budget has run to its max_depth without a mate score,
\* and one with max_depth 0 has stopped on a mate score
RanToDepth ==
    /\ Returned
    /\ ret.req.max_time < 0
    /\ ret.result.depth = ShuttleDepth - 1
    /\ Abs(ret.result.score) <= MATE_SCORE - 100
    /\ Len(out) = 1
    /\ out[1].result.depth = ShuttleDepth

\* C7: when the root has no legal move (checkmate or stalemate) search returns a
\* null best move (from = to) with score 0 and depth 0 without searching: no
\* node is counted and the transposition table is as it was at the call
NoMoveNoSearch ==
    (Returned /\ gen_legal_moves(ret.entry).moves = <<>>) =>
        /\ ret.result.best_move.from = ret.result.best_move.to
        /\ is_null(ret.result.best_move)
        /\ ret.result.score = 0
        /\ ret.result.depth = 0
        /\ ret.depths = <<>>
        /\ searcher.nodes = 0
        /\ searcher.tt = ret.entry_tt
        /\ events = {}

\* search has returned from a root where the side to move is mated
ReturnedFromMate ==
    /\ Returned
    /\ gen_legal_moves(ret.entry).moves = <<>>
    /\ in_check(ret.entry)

\* m is a legal move of b after which the side to move is in check and has no
\* legal move
Checkmates(b, m) ==
    /\ \E i \in DOMAIN gen_legal_moves(b).moves : MoveEq(gen_legal_moves(b).moves[i], m)
    /\ in_check(make_move(b, m))
    /\ gen_legal_moves(make_move(b, m)).moves = <<>>

\* the side to move in b has a move that delivers checkmate
HasMateInOne(b) == \E i \in DOMAIN gen_legal_moves(b).moves : Checkmates(b, gen_legal_moves(b).moves[i])

\* C9: when the side to move has a move that delivers checkmate, search with
\* max_depth >= 2 and no time budget returns a checkmating move with a score of
\* at least MATE_SCORE - 10
MateInOneFound ==
    (Returned /\ ret.req.max_time <= 0 /\ ret.req.max_depth >= 2 /\ HasMateInOne(ret.entry)) =>
        /\ Checkmates(ret.entry, ret.result.best_move)
        /\ ret.result.score >= MATE_SCORE - 10

\* the frame i of the stack has made a null move and waits for its child
Passed(i) == stack[i].kind = "alphabeta" /\ stack[i].pc = "null"

\* C26: on every path of the search tree no two null moves are made one after
\* the other (the child of a null move is called with null_ok false), and a null
\* move is made only where the side to move is not in check: when the child is
\* entered, the king of the side that passed is not attacked
NullMovesApart ==
    \A i \in 1..(Len(stack) - 1) :
        Passed(i) =>
            /\ ~stack[i].in_check
            /\ ~Passed(i + 1)
            /\ (stack[i + 1].kind = "alphabeta") => ~stack[i + 1].null_ok
            /\ (i + 1 = Len(stack) /\ stack[i + 1].pc = "enter") =>
                  ~is_attacked(bd, bd.king_sq[1 - bd.side], bd.side)

\* a reply to a null move is being searched
ReplyToNullSearched ==
    \E i \in 1..(Len(stack) - 2) :
        /\ Passed(i)
        /\ stack[i + 1].pc = "child"
        /\ bd.side = stack[i].ply % 2

----------------------------------------------------------------------------
(* Searches with a time budget (SpecTimed) *)

\* 7R/8/P7/8/2k2n2/5Kbq/6B1/8 b - - 0 1: the search to depth 4 counts its node 4096
\* in the fourth iteration
FenTimeUp ==
    [pieces |-> <<"7", "R", "/", "8", "/", "P", "7", "/", "8", "/", "2", "k", "2", "n",
                  "2", "/", "5", "K", "b", "q", "/", "6", "B", "1", "/", "8">>,
     turn |-> "b", castle |-> <<"-">>, ep |-> <<"-">>,
     halfmove |-> 0, fullmove |-> 1]

\* rN2R1Q1/8/5Br1/q2r3q/bn1NB3/1kq1nQ2/1Rb2K1R/6Q1 b - - 0 1: the captures of the
\* first iteration take more than 4096 nodes
FenCrowded ==
    [pieces |-> <<"r", "N", "2", "R", "1", "Q", "1", "/", "8", "/", "5", "B", "r", "1",
                  "/", "q", "2", "r", "3", "q", "/", "b", "n", "1", "N", "B", "3", "/",
                  "1", "k", "q", "1", "n", "Q", "2", "/", "1", "R", "b", "2", "K", "1",
                  "R", "/", "6", "Q", "1">>,
     turn |-> "b", castle |-> <<"-">>, ep |-> <<"-">>,
     halfmove |-> 0, fullmove |-> 1]

\* 8/8/K2B4/4q3/8/k7/8/8 b - - 0 1: black has moves that give check and moves that
\* leave the king attacked
FenQueenCheck ==
    [pieces |-> <<"8", "/", "8", "/", "K", "2", "B", "4", "/", "4", "q", "3", "/", "8",
                  "/", "k", "7", "/", "8", "/", "8">>,
     turn |-> "b", castle |-> <<"-">>, ep |-> <<"-">>,
     halfmove |-> 0, fullmove |-> 1]

\* the depth and the budget in milliseconds of the timed searches
TimedDepth == 4
Budget == 1

\* timed searches in which the clock can run out at node 4096, in the fourth and
\* in the first iteration, and a search without a budget
InitTimed ==
    \E lines \in {<<Request(FenTimeUp, TimedDepth, Budget)>>,
                  <<Request(FenCrowded, 1, Budget)>>,
                  <<Request(FenQueenCheck, 1, 0)>>} :
        MainStarts(lines)

SpecTimed == InitTimed /\ [][NextSearch]_vars

\* m is a move of the rules in b: pseudo-legal, and it does not leave the mover's
\* king attacked
IsLegalMove(b, m) ==
    \E i \in DOMAIN gen_pseudo_moves(b) :
        MoveEq(gen_pseudo_moves(b)[i], m) /\ LeavesKingSafe(b, m)

\* C4: whenever the root position has a legal move, the best_move search returns
\* is a legal move of the root position, whatever max_depth and the budget,
\* also when the time runs out in the first iteration
BestMoveLegal ==
    (Returned /\ \E i \in DOMAIN gen_pseudo_moves(ret.entry) :
                     LeavesKingSafe(ret.entry, gen_pseudo_moves(ret.entry)[i])) =>
        IsLegalMove(ret.entry, ret.result.best_move)

\* the time has run out in the first iteration and search has returned
TimeUpInFirstIteration ==
    /\ Returned
    /\ searcher.time_up
    /\ ret.aborted = 1
    /\ ret.depths = <<>>

\* C5: when search returns, every field of the board (squares, side, castling,
\* ep_square, halfmove, fullmove, hash, king squares, position history) is what
\* it was at entry, on every return path
SearchRestoresBoard == Returned => bd = ret.entry

\* search has returned after the time ran out, having gone through beta cutoffs,
\* null-move cutoffs and illegal captures skipped in quiescence
TimeUpAfterCutoffs ==
    /\ Returned
    /\ searcher.time_up
    /\ ret.aborted > 1
    /\ {"beta cutoff", "null-move cutoff", "illegal capture"} \subseteq events

\* C6: if the time runs out in iteration d > 1, best_move, score and depth
\* returned are those recorded at the end of the last completed iteration
PartialIterationDropped ==
    (Returned /\ ret.aborted > 1) =>
        /\ ret.result.best_move = ret.completed.best_move
        /\ ret.result.score = ret.completed.score
        /\ ret.result.depth = ret.completed.depth
        /\ ret.result.depth = ret.depths[Len(ret.depths)]
        /\ ret.result.depth < ret.aborted

\* the time has run out in the fourth iteration, after three completed ones
FourthIterationAborted ==
    /\ Returned
    /\ searcher.time_up
    /\ ret.aborted = TimedDepth
    /\ ret.depths = UpTo(TimedDepth - 1)
    /\ searcher.nodes = 4096

\* rN2R3/8/6r1/q2r3q/bn1NB3/1kq1nQ2/1Rb2K1R/6Q1 b - - 0 1: black is in check and has
\* few moves; the first iteration takes 1927 nodes, mostly captures, and the second
\* counts node 4096
FenAbort ==
    [pieces |-> <<"r", "N", "2", "R", "3", "/", "8", "/", "6", "r", "1", "/", "q", "2",
                  "r", "3", "q", "/", "b", "n", "1", "N", "B", "3", "/", "1", "k", "q",
                  "1", "n", "Q", "2", "/", "1", "R", "b", "2", "K", "1", "R", "/", "6",
                  "Q", "1">>,
     turn |-> "b", castle |-> <<"-">>, ep |-> <<"-">>,
     halfmove |-> 0, fullmove |-> 1]

\* the depth of the search in which the second iteration is cut short
AbortDepth == 2

InitAbort == MainStarts(<<Request(FenAbort, AbortDepth, Budget)>>)

SpecAbort == InitAbort /\ [][NextSearch]_vars

\* the time has run out in the second iteration, after the first was completed
SecondIterationAborted ==
    /\ Returned
    /\ searcher.time_up
    /\ ret.aborted = 2
    /\ ret.depths = <<1>>
    /\ searcher.nodes = 4096

\* a call of alphabeta or quiescence returns in this step
FrameReturns ==
    /\ stack # <<>>
    /\ stack[Len(stack)].kind \in {"alphabeta", "quiescence"}
    /\ Len(stack') < Len(stack)

\* C25: once time_up has been set during a search call it stays set until the
\* call returns, every pending alphabeta and quiescence frame returns 0, and no
\* transposition-table entry is written for the rest of that call
TimeUpPoisons ==
    [][(searcher.time_up /\ stack # <<>> /\ stack[1].pc # "enter") =>
          /\ searcher'.time_up
          /\ FrameReturns => ret'.score = 0
          /\ searcher'.tt = searcher.tt]_vars

----------------------------------------------------------------------------
(* Searches one after the other on the same Searcher (SpecRepeat) *)

\* the depths of the repeated searches
RepeatDepth == 2

\* a search, a deeper one and twice the first one again, all without a budget and
\* from the same position
InitRepeat ==
    \E lines \in {<<Request(FenShuttle, RepeatDepth, 0), Request(FenShuttle, RepeatDepth + 1, 0),
                    Request(FenShuttle, RepeatDepth, 0), Request(FenShuttle, RepeatDepth, 0)>>,
                  <<Request(FenBackRank, RepeatDepth - 1, 0), Request(FenBackRank, RepeatDepth, 0),
                    Request(FenBackRank, RepeatDepth - 1, 0), Request(FenBackRank, RepeatDepth - 1, 0)>>} :
        MainStarts(lines)

SpecRepeat == InitRepeat /\ [][NextSearch]_vars

\* root_search is about to make the first tt_probe of a search call
FirstProbe ==
    /\ Len(stack) = 2
    /\ stack[1].kind = "search"
    /\ stack[1].depth = 1
    /\ stack[2].kind = "root_search"
    /\ stack[2].pc = "enter"

\* C27: at the first probe of every search call all killer slots and all history
\* counters are zero and tt_hits and tt_stores are zero, while the transposition
\* table holds every entry as the earlier search calls left it
OrderingClearedTableKept ==
    FirstProbe =>
        /\ \A ply \in 0..(MAX_PLY - 1), k \in 1..2 : is_null(KillerAt(searcher, ply, k))
        /\ \A side \in {WHITE_SIDE, BLACK_SIDE}, from \in 0..63, to \in 0..63 :
              HistoryAt(searcher, side, from, to) = 0
        /\ searcher.tt_hits = 0
        /\ searcher.tt_stores = 0
        /\ searcher.nodes = 0
        /\ searcher.tt = stack[1].entry_tt

\* the first probe of a search that follows one with beta cutoffs, on the table
\* that search left
FirstProbeOnFilledTable ==
    /\ FirstProbe
    /\ out # <<>>
    /\ "beta cutoff" \in out[Len(out)].events
    /\ out[Len(out)].result.tt_stores > 0
    /\ searcher.tt # <<>>
    /\ searcher.tt # out[Len(out)].entry_tt

\* the lines i and j of the output are of searches without a budget on equal
\* boards with equal max_depth
SameSearch(i, j) ==
    /\ out[i].req.max_time <= 0
    /\ out[j].req.max_time <= 0
    /\ out[i].entry = out[j].entry
    /\ out[i].req.max_depth = out[j].req.max_depth

SameResult(i, j) ==
    /\ out[i].result.best_move = out[j].result.best_move
    /\ out[i].result.score = out[j].result.score
    /\ out[i].result.depth = out[j].result.depth

\* C10 as stated: without a budget, two searches on equal boards with equal
\* max_depth return the same best_move, score and depth, whatever the Searcher
\* ran before
SameSearchSameResult ==
    \A i, j \in DOMAIN out : SameSearch(i, j) => SameResult(i, j)

\* C10: without a budget, two searches on equal boards with equal max_depth that
\* start from equal transposition tables return the same best_move, score and
\* depth
SameTableSameResult ==
    \A i, j \in DOMAIN out :
        (SameSearch(i, j) /\ out[i].entry_tt = out[j].entry_tt) => SameResult(i, j)

\* the third and the fourth search started from the same table, one that the
\* deeper search had filled, and the first search returned another score
RepeatedOnFilledTable ==
    /\ Len(out) = 4
    /\ SameSearch(3, 4)
    /\ out[3].entry_tt = out[4].entry_tt
    /\ out[3].entry_tt # out[1].entry_tt
    /\ out[3].result.depth = out[3].req.max_depth
    /\ ~SameResult(1, 3)

----------------------------------------------------------------------------
(* Castling rights along the lines played from a position (SpecCastle) *)

\* r3k2r/8/8/8/8/8/6b1/R3K2R b Kq - 0 1: white may castle king side only, black
\* queen side only; the bishop can take the rook h1
FenCastlingPartial ==
    [pieces |-> <<"r", "3", "k", "2", "r", "/", "8", "/", "8", "/", "8", "/", "8", "/",
                  "8", "/", "6", "b", "1", "/", "R", "3", "K", "2", "R">>,
     turn |-> "b", castle |-> <<"K", "q">>, ep |-> <<"-">>,
     halfmove |-> 0, fullmove |-> 1]

\* 4k2r/7p/8/8/8/8/7P/4K2R w Kk - 0 1: few moves, so that a king or a rook can leave
\* its square and come back
FenCastlingKings ==
    [pieces |-> <<"4", "k", "2", "r", "/", "7", "p", "/", "8", "/", "8", "/", "8", "/",
                  "8", "/", "7", "P", "/", "4", "K", "2", "R">>,
     turn |-> "w", castle |-> <<"K", "k">>, ep |-> <<"-">>,
     halfmove |-> 0, fullmove |-> 1]

\* the moves made from the FENs with castling rights
MaxCastlePath == 2

MaxKingsPath == 3

InitCastle ==
    /\ \/ bd \in {set_fen(FenCastling), set_fen(FenCastlingPartial)} /\ limit = MaxCastlePath
       \/ bd = set_fen(FenCastlingKings) /\ limit = MaxKingsPath
    /\ path = <<>>
    /\ last = [op |-> "set_fen", m |-> NullMove, before |-> bd]
    /\ legal = <<>>
    /\ SearcherIdle
    /\ AppNotLoaded

NextCastle == MakeMove \/ UnmakeMove

SpecCastle == InitCastle /\ [][NextCastle]_vars

\* the king and the rook a castling bit stands for are on their squares:
\* WK = 1 (e1, h1), WQ = 2 (e1, a1), BK = 4 (e8, h8), BQ = 8 (e8, a8)
RightHasPieces(b, bit, king_at, rook_at, sign) ==
    HasBit(b.castling, bit) =>
        b.board[king_at] = sign * PT_KING /\ b.board[rook_at] = sign * PT_ROOK

\* C12: in every position reached by make_move / unmake_move of generated moves
\* from a FEN whose castling field agrees with its placement, each set castling
\* bit has its king on e1 / e8 and its rook on the corner, and make_move never
\* sets a castling bit
CastlingRightsSound ==
    /\ RightHasPieces(bd, 1, 4, 7, 1)
    /\ RightHasPieces(bd, 2, 4, 0, 1)
    /\ RightHasPieces(bd, 4, 60, 63, -1)
    /\ RightHasPieces(bd, 8, 60, 56, -1)
    /\ last.op = "make_move" =>
          \A bit \in {1, 2, 4, 8} : HasBit(bd.castling, bit) => HasBit(last.before.castling, bit)

\* a capture on a corner has taken a right from the side that lost the rook while
\* the other side keeps one
RightLostByCapture ==
    /\ last.op = "make_move"
    /\ last.m.captured = PT_ROOK
    /\ last.m.to = 7
    /\ HasBit(last.before.castling, 1)
    /\ bd.castling = 8

----------------------------------------------------------------------------
(* The position history along the lines played (SpecRep) *)

\* the moves on the path that are not null moves
MovesOnPath == Cardinality({i \in 1..Len(path) : ~path[i].null})

----------------------------------------------------------------------------
(* is_attacked on boards with one piece and one more (SpecAttack) *)

\* the pieces put on the empty board
MaxPieces == 2

\* the second piece: a black pawn, which blocks rays and attacks itself
Blocker == B_PAWN

\* the squares it is put on: f1, g2, d4, e5, b7
BlockerSquares == {5, 14, 27, 36, 49}

PiecesOn(b) == Cardinality({s \in 0..63 : b.board[s] # 0})

InitAttack ==
    /\ bd = NewBoard
    /\ path = <<>>
    /\ last = [op |-> "Board", by |-> 0, attacked |-> {}]
    /\ legal = <<>>
    /\ limit = MaxPieces
    /\ SearcherIdle
    /\ AppNotLoaded

\* a piece is put on an empty square: any piece anywhere first, then blockers
Place ==
    /\ PiecesOn(bd) < limit
    /\ last.op # "is_attacked"
    /\ \E sq \in 0..63, p \in IF PiecesOn(bd) = 0 THEN (-6..6) \ {0} ELSE {Blocker} :
          /\ PiecesOn(bd) > 0 => sq \in BlockerSquares
          /\ bd.board[sq] = 0
          /\ bd' = [bd EXCEPT !.board[sq] = p]
    /\ last' = [op |-> "place", by |-> 0, attacked |-> {}]
    /\ UNCHANGED <<path, legal, limit>>
    /\ UNCHANGED searchVars
    /\ UNCHANGED appVars

\* is_attacked(sq, by) is called for every square
IsAttacked ==
    /\ last.op # "is_attacked"
    /\ \E by \in {WHITE_SIDE, BLACK_SIDE} :
          last' = [op |-> "is_attacked", by |-> by,
                   attacked |-> {sq \in 0..63 : is_attacked(bd, sq, by)}]
    /\ UNCHANGED <<bd, path, legal, limit>>
    /\ UNCHANGED searchVars
    /\ UNCHANGED appVars

NextAttack == Place \/ IsAttacked

SpecAttack == InitAttack /\ [][NextAttack]_vars

\* the squares strictly between two squares of a rank, a file or a diagonal
Between(a, b) ==
    LET steps == Max(Abs(sq_file(b) - sq_file(a)), Abs(sq_rank(b) - sq_rank(a)))
        df == (sq_file(b) - sq_file(a)) \div steps
        dr == (sq_rank(b) - sq_rank(a)) \div steps
    IN {make_sq(sq_file(a) + k * df, sq_rank(a) + k * dr) : k \in 1..(steps - 1)}

\* the rules of chess: the piece on from could capture on sq
CouldCapture(board, from, sq) ==
    LET p == board[from]
        pt == Abs(p)
        df == Abs(sq_file(sq) - sq_file(from))
        dr == Abs(sq_rank(sq) - sq_rank(from))
        open == \A s \in Between(from, sq) : board[s] = 0
    IN /\ from # sq
       /\ \/ pt = PT_PAWN /\ df = 1 /\ sq_rank(sq) - sq_rank(from) = (IF p > 0 THEN 1 ELSE -1)
          \/ pt = PT_KNIGHT /\ ((df = 1 /\ dr = 2) \/ (df = 2 /\ dr = 1))
          \/ pt = PT_KING /\ df <= 1 /\ dr <= 1
          \/ pt \in {PT_BISHOP, PT_QUEEN} /\ df = dr /\ open
          \/ pt \in {PT_ROOK, PT_QUEEN} /\ (df = 0 \/ dr = 0) /\ open

\* the squares some piece of side by could capture on
AttackedByRules(board, by) ==
    {sq \in 0..63 : \E from \in 0..63 :
        /\ board[from] # 0
        /\ piece_side(board[from]) = by
        /\ CouldCapture(board, from, sq)}

\* C14: is_attacked(sq, by) is true exactly when some piece of side by could
\* capture on sq under the rules of movement, with no attack across an edge
IsAttackedExact ==
    last.op = "is_attacked" => last.attacked = AttackedByRules(bd.board, last.by)

\* a rook on h1 behind a blocker on f1: is_attacked has answered for white, g1
\* and h2 are attacked, neither e1 behind the blocker nor a2 across the edge is
RookBlockedAtEdge ==
    /\ last.op = "is_attacked"
    /\ last.by = WHITE_SIDE
    /\ bd.board[7] = PT_ROOK
    /\ bd.board[5] = Blocker
    /\ {6, 15} \subseteq last.attacked
    /\ last.attacked \cap {4, 8} = {}

----------------------------------------------------------------------------
(* The castling moves generated (SpecCastleGen) *)

\* r3k3/p7/8/8/8/8/P7/R3K3 w Qq - 0 1: queen-side rights; the rook a8 can cover d1
\* (the king's transit) or b1 (which the king does not cross)
FenCastlingQueens ==
    [pieces |-> <<"r", "3", "k", "3", "/", "p", "7", "/", "8", "/", "8", "/", "8", "/",
                  "8", "/", "P", "7", "/", "R", "3", "K", "3">>,
     turn |-> "w", castle |-> <<"Q", "q">>, ep |-> <<"-">>,
     halfmove |-> 0, fullmove |-> 1]

\* the moves made before gen_legal_moves is called
MaxGenPath == 2

InitCastleGen ==
    /\ bd \in {set_fen(FenCastlingKings), set_fen(FenCastlingQueens)}
    /\ path = <<>>
    /\ last = [op |-> "set_fen", m |-> NullMove, before |-> bd]
    /\ legal = <<>>
    /\ limit = MaxGenPath
    /\ SearcherIdle
    /\ AppNotLoaded

NextCastleGen == MakeMove \/ UnmakeMove \/ GenLegal

SpecCastleGen == InitCastleGen /\ [][NextCastleGen]_vars

\* the castling moves among the moves gen_king_moves generates
CastlingGenerated(b) == {m \in MoveSet(gen_king_moves(b)) : HasBit(m.flags, FL_CASTLE)}

\* the corner of the rook that castles with a king going from from to to
RookCorner(from, to) == IF to > from THEN from + 3 ELSE from - 4

\* the castling bit of a side and a wing
CastlingBit(side, from, to) ==
    IF side = WHITE_SIDE THEN (IF to > from THEN 1 ELSE 2) ELSE (IF to > from THEN 4 ELSE 8)

\* C15: a castling move is generated only when its castling bit is set, the
\* squares between king and rook are empty, and the king's origin, transit and
\* destination squares are attacked by no enemy piece
CastlingOnlyWhenAllowed ==
    \A m \in CastlingGenerated(bd) :
        /\ bd.board[m.from] = piece_sign(bd.side) * PT_KING
        /\ HasBit(bd.castling, CastlingBit(bd.side, m.from, m.to))
        /\ \A s \in Between(m.from, RookCorner(m.from, m.to)) : bd.board[s] = 0
        /\ {m.from, (m.from + m.to) \div 2, m.to} \cap AttackedByRules(bd.board, 1 - bd.side) = {}

\* white holds the king-side right with f1 and g1 empty and is not in check, a
\* black rook on f8 covers f1: gen_legal_moves has returned no castling move
CastlingRefusedThroughCheck ==
    /\ last.op = "gen_legal_moves"
    /\ bd.side = WHITE_SIDE
    /\ HasBit(bd.castling, 1)
    /\ bd.board[61] = -PT_ROOK
    /\ bd.board[5] = 0 /\ bd.board[6] = 0
    /\ \A s \in {13, 21, 29, 37, 45, 53} : bd.board[s] = 0
    /\ ~in_check(bd)
    /\ \A i \in 1..Len(legal) : ~HasBit(legal[i].flags, FL_CASTLE)

----------------------------------------------------------------------------
(* En passant along the lines played (SpecEnPassant) *)

\* 8/2p5/8/KP5r/8/8/8/4k3 b - - 0 1: after c7c5 the capture b5xc6 would take both
\* pawns off the fifth rank and leave the king a5 to the rook h5
FenEnPassantPinned ==
    [pieces |-> <<"8", "/", "2", "p", "5", "/", "8", "/", "K", "P", "5", "r", "/", "8",
                  "/", "8", "/", "8", "/", "4", "k", "3">>,
     turn |-> "b", castle |-> <<"-">>, ep |-> <<"-">>,
     halfmove |-> 0, fullmove |-> 1]

\* the moves made from FenEnPassant and from FenEnPassantPinned
MaxEpPath == 3

MaxPinnedPath == 1

InitEnPassant ==
    /\ \/ bd = set_fen(FenEnPassant) /\ limit = MaxEpPath
       \/ bd = set_fen(FenEnPassantPinned) /\ limit = MaxPinnedPath
    /\ path = <<>>
    /\ last = [op |-> "set_fen", m |-> NullMove, before |-> bd]
    /\ legal = <<>>
    /\ SearcherIdle
    /\ AppNotLoaded

NextEnPassant == MakeMove \/ UnmakeMove \/ GenLegal

SpecEnPassant == InitEnPassant /\ [][NextEnPassant]_vars

\* m moved a pawn two squares forward on the board before
IsDoublePush(before, m) ==
    /\ Abs(before.board[m.from]) = PT_PAWN
    /\ sq_file(m.from) = sq_file(m.to)
    /\ Abs(sq_rank(m.to) - sq_rank(m.from)) = 2

\* the squares beside sq on its rank
Beside(sq) == {s \in {sq - 1, sq + 1} : s >= 0 /\ s < 64 /\ sq_rank(s) = sq_rank(sq)}

\* the en-passant capture of the pawn pushed by push, by the pawn on from
EpCapture(b, push, from) ==
    Move(from, (push.from + push.to) \div 2, -piece_sign(b.side) * PT_PAWN, 0, FL_EP)

\* the board without the pawns on from and on taken and with pawn on to: does an
\* enemy piece attack the king of side?
Exposes(b, from, to, taken, pawn) ==
    b.king_sq[b.side] \in
        AttackedByRules([b.board EXCEPT ![from] = 0, ![taken] = 0, ![to] = pawn], 1 - b.side)

InList(moves, m) == \E i \in 1..Len(moves) : MoveEq(moves[i], m)

\* gen_legal_moves has been called right after a double push: the capture by each
\* enemy pawn beside the pushed pawn is in the list unless it exposes the king
OfferedAfterPush ==
    (last.op = "gen_legal_moves" /\ path # <<>> /\
     IsDoublePush(path[Len(path)].before, path[Len(path)].m)) =>
        \A from \in Beside(path[Len(path)].m.to) :
            bd.board[from] = piece_sign(bd.side) * PT_PAWN =>
                (InList(legal, EpCapture(bd, path[Len(path)].m, from))
                 <=> ~Exposes(bd, from, (path[Len(path)].m.from + path[Len(path)].m.to) \div 2,
                              path[Len(path)].m.to, piece_sign(bd.side) * PT_PAWN))

\* make_move of an en-passant capture: the pushed pawn's square and the
\* capturer's square are empty, the capturer stands on the skipped square
TakenEnPassant ==
    (last.op = "make_move" /\ HasBit(last.m.flags, FL_EP) /\ Len(path) >= 2) =>
        /\ bd.board[path[Len(path) - 1].m.to] = 0
        /\ bd.board[last.m.from] = 0
        /\ last.m.to = (path[Len(path) - 1].m.from + path[Len(path) - 1].m.to) \div 2
        /\ bd.board[last.m.to] = last.before.board[last.m.from]

\* one move after the push the capture on the skipped square is not generated
GoneOneMoveLater ==
    last.op = "gen_legal_moves" =>
        \A k \in 1..(Len(path) - 1) :
            IsDoublePush(path[k].before, path[k].m) =>
                \A i \in 1..Len(legal) :
                    ~(HasBit(legal[i].flags, FL_EP)
                      /\ legal[i].to = (path[k].m.from + path[k].m.to) \div 2)

\* C16: after a double pawn push that lands beside an enemy pawn gen_legal_moves
\* contains the capture with the en-passant flag unless it would expose the
\* capturer's king; make_move of it empties the pushed pawn's square and leaves
\* the capturing pawn on the skipped square; one move later the capture is no
\* longer generated
EnPassantRight == OfferedAfterPush /\ TakenEnPassant /\ GoneOneMoveLater

\* the pawn e5 has let d7d5 pass: two moves later gen_legal_moves has been called
\* with the pawns still side by side
EnPassantLapsed ==
    /\ last.op = "gen_legal_moves"
    /\ Len(path) = 3
    /\ IsDoublePush(path[1].before, path[1].m)
    /\ bd.board[path[1].m.to] = B_PAWN
    /\ bd.board[path[1].m.to + 1] = W_PAWN
    /\ bd.side = WHITE_SIDE

----------------------------------------------------------------------------
(* Promotions generated and scored (SpecPromotion) *)

\* the moves made from FenPromotion before the moves are scored
MaxPromotionPath == 1

InitPromotion ==
    /\ bd = set_fen(FenPromotion)
    /\ path = <<>>
    /\ last = [op |-> "set_fen", m |-> NullMove, before |-> bd]
    /\ legal = <<>>
    /\ limit = MaxPromotionPath
    /\ SearcherIdle
    /\ AppNotLoaded

\* alphabeta generates the pseudo-legal moves and scores them, with the move of
\* the transposition table (or none) as tt_move; the scores are kept beside the
\* moves
ScoreMoves ==
    /\ KingSafe(bd)
    /\ \E tt_move \in MoveSet(gen_pseudo_moves(bd)) \cup {NullMove} :
          /\ legal' = gen_pseudo_moves(bd)
          /\ last' = [op |-> "score_moves", m |-> tt_move, before |-> bd,
                      scores |-> score_moves(bd, searcher, gen_pseudo_moves(bd), 0, tt_move)]
    /\ UNCHANGED <<bd, path, limit>>
    /\ UNCHANGED searchVars
    /\ UNCHANGED appVars

NextPromotion == MakeMove \/ UnmakeMove \/ ScoreMoves

SpecPromotion == InitPromotion /\ [][NextPromotion]_vars

\* the squares the pawn on from can go to: forward if empty, diagonally forward
\* onto an enemy piece
PawnTargets(b, from) ==
    LET up == IF b.board[from] > 0 THEN 1 ELSE -1
    IN {to \in 0..63 :
          /\ sq_rank(to) = sq_rank(from) + up
          /\ \/ sq_file(to) = sq_file(from) /\ b.board[to] = 0
             \/ Abs(sq_file(to) - sq_file(from)) = 1 /\ b.board[to] # 0
                /\ piece_side(b.board[to]) # b.side}

\* the pawn moves of the side to move that reach the last rank, as <<from, to>>
LastRankSteps(b) ==
    {ft \in (0..63) \X (0..63) :
        /\ b.board[ft[1]] = piece_sign(b.side) * PT_PAWN
        /\ ft[2] \in PawnTargets(b, ft[1])
        /\ sq_rank(ft[2]) \in {0, 7}}

\* the places in the list of the moves from from to to
PlacesOf(moves, from, to) == {i \in 1..Len(moves) : moves[i].from = from /\ moves[i].to = to}

\* the place in the list of the promotion to pt from from to to (0 if none)
PlaceOfPromotion(moves, from, to, pt) ==
    LET at == {i \in PlacesOf(moves, from, to) : Abs(moves[i].promotion) = pt}
    IN IF at = {} THEN 0 ELSE CHOOSE i \in at : TRUE

\* the list holds exactly the four promotions Q, R, B, N of the step, in this
\* order, each with the piece on the target square as the captured piece
FourPromotions(b, moves, from, to) ==
    LET q == PlaceOfPromotion(moves, from, to, PT_QUEEN)
    IN /\ q > 0
       /\ PlacesOf(moves, from, to) = q..(q + 3)
       /\ \A k \in 0..3 :
             MoveEq(moves[q + k],
                    Move(from, to, b.board[to], piece_sign(b.side) * (PT_QUEEN - k), 0))

\* the queen promotion of the step has a strictly higher score than the other three
QueenScoredHigher(moves, scores, from, to) ==
    \A pt \in {PT_ROOK, PT_BISHOP, PT_KNIGHT} :
        scores[PlaceOfPromotion(moves, from, to, PT_QUEEN)]
            > scores[PlaceOfPromotion(moves, from, to, pt)]

\* the four promotions of the step have the same score
PromotionsScoredEqual(moves, scores, from, to) ==
    \A i, j \in PlacesOf(moves, from, to) : scores[i] = scores[j]

\* none of the moves of the step is the TT move
NotTTMove(moves, tt_move, from, to) ==
    \A i \in PlacesOf(moves, from, to) : ~MoveEq(moves[i], tt_move)

\* C17 as stated: every pawn move that reaches the last rank, by push or by
\* capture, comes as the four promotions Q, R, B, N, and score_moves gives the
\* queen promotion a strictly higher score than the other three of the same
\* from / to when none of them is the TT move
QueenPromotionFirst ==
    last.op = "score_moves" =>
        \A ft \in LastRankSteps(bd) :
            /\ FourPromotions(bd, legal, ft[1], ft[2])
            /\ NotTTMove(legal, last.m, ft[1], ft[2]) =>
                  QueenScoredHigher(legal, last.scores, ft[1], ft[2])

\* C17 amended: the four promotions are generated for pushes and captures; the
\* queen promotion has the strictly higher score when the pawn promotes by a
\* push, while the four promotions of a capture get one and the same score
QueenPromotionFirstOnPush ==
    last.op = "score_moves" =>
        \A ft \in LastRankSteps(bd) :
            /\ FourPromotions(bd, legal, ft[1], ft[2])
            /\ NotTTMove(legal, last.m, ft[1], ft[2]) =>
                  IF bd.board[ft[2]] = 0
                  THEN QueenScoredHigher(legal, last.scores, ft[1], ft[2])
                  ELSE PromotionsScoredEqual(legal, last.scores, ft[1], ft[2])

\* the moves of black have been scored after a white move: the pawn h2 promotes
\* on h1 by a push and on g1 by taking the knight, no promotion is the TT move
PromotionsScored ==
    /\ last.op = "score_moves"
    /\ bd.side = BLACK_SIDE
    /\ is_null(last.m)
    /\ {<<15, 7>>, <<15, 6>>} \subseteq LastRankSteps(bd)

----------------------------------------------------------------------------
(* The evaluation of a position and of its mirror image (SpecEval) *)

\* the moves made before a position is evaluated
MaxEvalPath == 1

\* middlegames with pawn shields, endgames, rooks on open files, passed,
\* doubled and isolated pawns
EvalFens == <<FenMiddlegame, FenRepetition, FenEvents, FenBackRank, FenCastling,
              FenPromotion, FenEnPassant>>

InitEval ==
    /\ \E i \in 1..Len(EvalFens) : bd = set_fen(EvalFens[i])
    /\ path = <<>>
    /\ last = [op |-> "set_fen", m |-> NullMove, before |-> bd]
    /\ legal = <<>>
    /\ limit = MaxEvalPath
    /\ SearcherIdle
    /\ AppNotLoaded

\* the position with the colours of all pieces swapped and the board reflected
\* rank 1 <-> rank 8
Flipped(b) ==
    [b EXCEPT !.board = [s \in 0..63 |-> -b.board[make_sq(sq_file(s), 7 - sq_rank(s))]],
              !.king_sq = [s \in 0..1 |-> make_sq(sq_file(b.king_sq[1 - s]),
                                                  7 - sq_rank(b.king_sq[1 - s]))],
              !.side = 1 - b.side]

\* quiescence evaluates the position; the mirror image is evaluated beside it
Evaluate ==
    /\ KingSafe(bd)
    /\ last' = [op |-> "evaluate", m |-> NullMove, before |-> bd,
                score |-> evaluate(bd), flipped |-> evaluate(Flipped(bd)),
                endgame |-> is_endgame(bd)]
    /\ UNCHANGED <<bd, path, legal, limit>>
    /\ UNCHANGED searchVars
    /\ UNCHANGED appVars

NextEval == MakeMove \/ UnmakeMove \/ Evaluate

SpecEval == InitEval /\ [][NextEval]_vars

\* C18: evaluate of the position with the colours swapped and the board
\* reflected vertically is -evaluate of the position, whatever the phase and the
\* pawn-structure, passed-pawn, rook-file and king-shield terms
EvaluateAntisymmetric ==
    last.op = "evaluate" =>
        /\ last.flipped = -last.score
        /\ is_endgame(Flipped(bd)) = last.endgame

\* a middlegame with a pawn before a king and a score other than 0 has been
\* evaluated
MiddlegameEvaluated ==
    /\ last.op = "evaluate"
    /\ ~last.endgame
    /\ last.score # 0
    /\ ShieldTerm(bd, BLACK_SIDE) # ShieldTerm(Flipped(bd), BLACK_SIDE)
    /\ \E f \in 0..7 : FileTerm(PawnFiles(bd, W_PAWN), PawnFiles(bd, B_PAWN), f) # 0

----------------------------------------------------------------------------
(* set_fen on malformed placement fields (SpecFen) *)

\* the characters added to a placement field, and how many
MaxTail == 3

TailChars == {"8", "/", "P", "k", "x"}

\* the placement fields the tails are added to: nothing (the tail starts on a8),
\* "K7/8" (a king on a8 and a seventh rank that runs over into the eighth) and
\* "8/8/8/8/8/8/8/" (the tail is the first rank and what follows it)
FenBases ==
    {<<>>, <<"K", "7", "/", "8">>,
     <<"8", "/", "8", "/", "8", "/", "8", "/", "8", "/", "8", "/", "8", "/">>}

Tails == UNION {[1..n -> TailChars] : n \in 0..MaxTail}

\* the input line "<pieces> w - - 0 1"
FenOf(pieces) ==
    [pieces |-> pieces, turn |-> "w", castle |-> <<"-">>, ep |-> <<"-">>,
     halfmove |-> 0, fullmove |-> 1]

\* what a write outside board can lead to: nothing that shows, another field of
\* the object overwritten (halfmove, read before the loop, keeps the value), or
\* a set_fen that does not return
StrayOutcomes(wild) ==
    IF wild = {} THEN {"unharmed"} ELSE {"unharmed", "clobbered", "crashed"}

AfterSetFen(fen, outcome) ==
    IF outcome = "crashed" THEN NewBoard
    ELSE IF outcome = "clobbered" THEN [set_fen(fen) EXCEPT !.halfmove = PT_PAWN]
    ELSE set_fen(fen)

InitFen ==
    /\ bd = NewBoard
    /\ path = <<>>
    /\ last = [op |-> "Board", fen |-> FenOf(<<>>), wild |-> {}, done |-> TRUE]
    /\ legal = <<>>
    /\ limit = MaxTail
    /\ SearcherIdle
    /\ AppNotLoaded

\* main calls set_fen on the board it has constructed
SetFen ==
    /\ last.op = "Board"
    /\ \E base \in FenBases, tail \in Tails :
          \E outcome \in StrayOutcomes(ParsedFen(FenOf(base \o tail)).wild) :
              /\ bd' = AfterSetFen(FenOf(base \o tail), outcome)
              /\ last' = [op |-> "set_fen", fen |-> FenOf(base \o tail),
                          wild |-> ParsedFen(FenOf(base \o tail)).wild,
                          done |-> outcome # "crashed"]
    /\ UNCHANGED <<path, legal, limit>>
    /\ UNCHANGED searchVars
    /\ UNCHANGED appVars

NextFen == SetFen

SpecFen == InitFen /\ [][NextFen]_vars

\* king_sq names a square with the king of the side, or -1 when it has none
KingSquaresRight(b) ==
    \A s \in {WHITE_SIDE, BLACK_SIDE} :
        IF \E sq \in 0..63 : b.board[sq] = piece_sign(s) * PT_KING
        THEN b.king_sq[s] \in 0..63 /\ b.board[b.king_sq[s]] = piece_sign(s) * PT_KING
        ELSE b.king_sq[s] = -1

\* C20: for every input, malformed placement fields included, set_fen completes
\* with every square write inside 0..63 and leaves a consistent board: the king
\* squares agree with the squares, the hash is compute_hash and the position
\* history holds exactly that key
SetFenSafe ==
    last.op = "set_fen" =>
        /\ last.done
        /\ last.wild = {}
        /\ KingSquaresRight(bd)
        /\ bd.hash = compute_hash(bd)
        /\ bd.pos_history = <<bd.hash>>

----------------------------------------------------------------------------
(* main.cpp: the line dispatcher (SpecLine) *)

\* std::string::find: the first index of ch in s, 0 when there is none
Find(s, ch) ==
    IF \E i \in DOMAIN s : s[i] = ch
    THEN CHOOSE i \in DOMAIN s : s[i] = ch /\ \A j \in 1..(i - 1) : s[j] # ch
    ELSE 0

\* while (!fen.empty() && fen.back() == ' ') fen.pop_back();
RECURSIVE TrimBack(_)
TrimBack(s) ==
    IF s # <<>> /\ s[Len(s)] = " " THEN TrimBack(SubSeq(s, 1, Len(s) - 1)) ELSE s

\* while (!fen.empty() && fen.front() == ' ') fen.erase(fen.begin());
RECURSIVE TrimFront(_)
TrimFront(s) == IF s # <<>> /\ s[1] = " " THEN TrimFront(Tail(s)) ELSE s

DecimalDigits == <<"0", "1", "2", "3", "4", "5", "6", "7", "8", "9">>

IsDecimal(ch) == \E d \in DOMAIN DecimalDigits : DecimalDigits[d] = ch

DecimalOf(ch) == (CHOOSE d \in DOMAIN DecimalDigits : DecimalDigits[d] = ch) - 1

\* the digits of s from index i on: how many, and their value
RECURSIVE DigitRun(_, _, _)
DigitRun(s, i, st) ==
    IF i <= Len(s) /\ IsDecimal(s[i])
    THEN DigitRun(s, i + 1, [n |-> st.n + 1, value |-> st.value * 10 + DecimalOf(s[i])])
    ELSE st

\* std::stoi: leading spaces, an optional sign, digits; what follows the digits
\* is ignored; without a digit it throws (ok is FALSE)
stoi(s) ==
    LET body == TrimFront(s)
        signed == body # <<>> /\ body[1] \in {"-", "+"}
        run == DigitRun(body, IF signed THEN 2 ELSE 1, [n |-> 0, value |-> 0])
    IN [ok |-> run.n > 0,
        value |-> IF signed /\ body[1] = "-" THEN -run.value ELSE run.value]

\* try { x = std::stoi(s); } catch (...) {}
TryStoi(s, x) == IF stoi(s).ok THEN stoi(s).value ELSE x

\* a dispatcher that takes a single value for the depth
OnlyOneValueAsDepth(rest) == [max_depth |-> TryStoi(rest, 0), movetime |-> 120000]

\* no second separator: the value is the movetime
OnlyOneValue(rest) == [max_depth |-> 0, movetime |-> TryStoi(rest, 120000)]

\* both depth and movetime provided; sep2 is the index of the second separator
BothValues(rest, sep2) ==
    [max_depth |-> TryStoi(SubSeq(rest, 1, sep2 - 1), 0),
     movetime |-> TryStoi(SubSeq(rest, sep2 + 1, Len(rest)), 120000)]

\* max_depth and movetime as main takes them from what follows the first separator
Values(rest) ==
    IF Find(rest, "|") # 0 THEN BothValues(rest, Find(rest, "|")) ELSE OnlyOneValue(rest)

Done(kind) == [kind |-> kind, fen |-> <<>>, max_depth |-> 0, movetime |-> 0]

\* one round of the loop of main on the line it has read: what it does, and for
\* a search the arguments of set_fen and search
Dispatch(line) ==
    IF line = <<"q", "u", "i", "t">> THEN Done("quit")
    ELSE IF line = <<"p", "i", "n", "g">> THEN Done("pong")
    ELSE IF Find(line, "|") = 0 THEN Done("skip")
    ELSE [kind |-> "search",
          fen |-> TrimFront(TrimBack(SubSeq(line, 1, Find(line, "|") - 1))),
          max_depth |-> Values(SubSeq(line, Find(line, "|") + 1, Len(line))).max_depth,
          movetime |-> Values(SubSeq(line, Find(line, "|") + 1, Len(line))).movetime]

\* the characters that follow the position on a line, and how many
MaxLineTail == 4

LineChars == {"|", "5", "1", " ", "x", "-"}

\* the lines: a position (a stand-in of one letter between spaces) followed by
\* up to MaxLineTail characters, and the two commands
Lines ==
    {<<" ", "k", " ">> \o t : t \in UNION {[1..n -> LineChars] : n \in 0..MaxLineTail}}
        \cup {<<"q", "u", "i", "t">>, <<"p", "i", "n", "g">>}

InitLine ==
    /\ bd = NewBoard
    /\ path = <<>>
    /\ last = [op |-> "main", line |-> <<>>, did |-> Done("skip")]
    /\ legal = <<>>
    /\ limit = MaxLineTail
    /\ SearcherIdle
    /\ AppNotLoaded

\* main reads a line and dispatches it
GetLine ==
    /\ last.op = "main"
    /\ \E line \in Lines : last' = [op |-> "getline", line |-> line, did |-> Dispatch(line)]
    /\ UNCHANGED <<bd, path, legal, limit>>
    /\ UNCHANGED searchVars
    /\ UNCHANGED appVars

\* the loop of main goes on to the next line, unless the line was quit
NextRound ==
    /\ last.op = "getline"
    /\ last.did.kind # "quit"
    /\ last' = [op |-> "main", line |-> <<>>, did |-> Done("skip")]
    /\ UNCHANGED <<bd, path, legal, limit>>
    /\ UNCHANGED searchVars
    /\ UNCHANGED appVars

NextLine == GetLine \/ NextRound

SpecLine == InitLine /\ [][NextLine]_vars

\* what follows the first separator of the line read last, its first field and,
\* when there is a second separator, what follows that one
Rest == SubSeq(last.line, Find(last.line, "|") + 1, Len(last.line))
HasSecond == Find(Rest, "|") # 0
First == IF HasSecond THEN SubSeq(Rest, 1, Find(Rest, "|") - 1) ELSE Rest
Second == SubSeq(Rest, Find(Rest, "|") + 1, Len(Rest))

Searched == last.op = "getline" /\ last.did.kind = "search"

\* C21 as stated: a request with the FEN and a max_depth but no movetime (no
\* second field, or one without a number) is searched with that max_depth and a
\* budget of 120000 ms; a request with no depth is searched with max_depth 0
MissingFieldsDefault ==
    Searched =>
        /\ (stoi(First).ok /\ (~HasSecond \/ ~stoi(Second).ok)) =>
              last.did.max_depth = stoi(First).value /\ last.did.movetime = 120000
        /\ (HasSecond /\ ~stoi(First).ok) => last.did.max_depth = 0

\* C21: a request with the FEN, a max_depth and a second separator followed by
\* no number is searched with that max_depth and a budget of 120000 ms; a
\* request with a single value after the FEN is searched with max_depth 0 and
\* that value as the budget; a request with no depth is searched with max_depth 0
MissingFieldsDefaultAfterSeparator ==
    Searched =>
        /\ (HasSecond /\ stoi(First).ok /\ ~stoi(Second).ok) =>
              last.did.max_depth = stoi(First).value /\ last.did.movetime = 120000
        /\ (~HasSecond /\ stoi(First).ok) =>
              last.did.max_depth = 0 /\ last.did.movetime = stoi(First).value
        /\ (~stoi(First).ok) => last.did.max_depth = 0

\* a line with a depth and an empty movetime field has been dispatched
DepthWithoutMovetime ==
    /\ Searched
    /\ last.did.fen = <<"k">>
    /\ HasSecond
    /\ Second = <<>>
    /\ last.did.max_depth = 15
    /\ last.did.movetime = 120000

----------------------------------------------------------------------------
(* The transposition table on its own (SpecTT) *)

\* how many tt_store calls in a row, and the depths stored and asked for
MaxStores == 2
MaxTTDepth == 3

\* three keys: the first two share the slot, the third has another
TTKeys == {{3}, {3, 40}, {5}}

\* the scores stored: small ones, the bounds of int16_t, a mate score and the
\* infinite scores
TTScores == {-INF_SCORE, -50, 32767, MATE_SCORE - 1, INF_SCORE}

TTFlags == {TT_EXACT, TT_LOWER}

\* a move that comes with an entry
TTMove == Move(12, 28, 0, 0, 0)

InitTT ==
    /\ bd = NewBoard
    /\ path = <<>>
    /\ last = [op |-> "Searcher", key |-> {}, depth |-> 0, score |-> 0, flag |-> TT_EXACT,
               before |-> NewSearcher, asked |-> 0, probe |-> ProbeEntry(EmptyEntry, {0}, 0, 0, 0)]
    /\ legal = <<>>
    /\ limit = MaxStores
    /\ SearcherIdle
    /\ AppNotLoaded

\* the search stores an entry
TTStore ==
    /\ last.op # "tt_probe"
    /\ searcher.tt_stores < MaxStores
    /\ \E key \in TTKeys, depth \in 1..MaxTTDepth, score \in TTScores, flag \in TTFlags :
          /\ searcher' = tt_store(searcher, key, depth, score, flag, TTMove)
          /\ last' = [last EXCEPT !.op = "tt_store", !.key = key, !.depth = depth,
                                  !.score = score, !.flag = flag, !.before = searcher]
    /\ UNCHANGED <<bd, path, legal, limit, stack, ret, clock, events, todo, out>>
    /\ UNCHANGED appVars

\* the search probes the key it has stored last, with the full window
TTProbe ==
    /\ last.op = "tt_store"
    /\ \E depth \in 1..MaxTTDepth :
          last' = [last EXCEPT !.op = "tt_probe", !.asked = depth,
                               !.probe = tt_probe(searcher, last.key, depth, -INF_SCORE,
                                                  INF_SCORE)]
    /\ UNCHANGED <<bd, path, legal, limit>>
    /\ UNCHANGED searchVars
    /\ UNCHANGED appVars

NextTT == TTStore \/ TTProbe

SpecTT == InitTT /\ [][NextTT]_vars

\* the slot of the key stored last, before and after the store
SlotBefore == TTAt(last.before.tt, TTIndex(last.key))
SlotAfter == TTAt(searcher.tt, TTIndex(last.key))

\* the condition under which tt_store is to write
Replaces == SlotBefore.key # last.key \/ last.depth >= SlotBefore.depth

\* C22: a tt_store that writes an entry followed by a tt_probe on the same key
\* with a depth not above the stored depth yields exactly the score stored, for
\* every score from -INF_SCORE to INF_SCORE, mate scores among them
StoredScoreProbed ==
    (last.op = "tt_probe" /\ Replaces /\ last.asked <= last.depth) =>
        last.probe.hit /\ last.probe.score = last.score

\* C23: tt_store overwrites the slot of the key exactly when the key in the slot
\* differs from the new key or the new depth is at least the stored depth, it
\* leaves the slot as it was otherwise and every other slot in any case, and
\* tt_stores grows by 1 when it overwrites and by 0 otherwise
StoreReplacesOrKeeps ==
    last.op = "tt_store" =>
        /\ \A k \in TTKeys : TTIndex(k) # TTIndex(last.key) =>
              TTAt(searcher.tt, TTIndex(k)) = TTAt(last.before.tt, TTIndex(k))
        /\ Replaces =>
              /\ SlotAfter.key = last.key
              /\ SlotAfter.depth = last.depth
              /\ SlotAfter.flag = last.flag
              /\ SlotAfter.best = TTMove
              /\ searcher.tt_stores = last.before.tt_stores + 1
        /\ ~Replaces =>
              /\ SlotAfter = SlotBefore
              /\ searcher.tt_stores = last.before.tt_stores

\* a store of the same key with the depth of the entry has replaced it, and a
\* shallower one has been refused
SameDepthReplaced ==
    /\ last.op = "tt_store"
    /\ SlotBefore.key = last.key
    /\ SlotBefore.depth = last.depth
    /\ SlotBefore.flag # last.flag
    /\ SlotAfter.flag = last.flag
    /\ searcher.tt_stores = MaxStores

----------------------------------------------------------------------------
(* The iterations with an aspiration window (SpecAspire) *)

\* 8/8/8/8/8/8/K2P4/1k6 w - - 0 1: a pawn ending whose score rises by more than 50
\* in the fifth iteration
FenKingPawn ==
    [pieces |-> <<"8", "/", "8", "/", "8", "/", "8", "/", "8", "/", "8", "/", "K", "2",
                  "P", "4", "/", "1", "k", "6">>,
     turn |-> "w", castle |-> <<"-">>, ep |-> <<"-">>,
     halfmove |-> 0, fullmove |-> 1]


\* the depth of the searches with an aspiration window
AspireDepth == 5

InitAspire ==
    \E lines \in {<<Request(FenKingPawn, AspireDepth, 0)>>,
                  <<Request(FenShuttle, AspireDepth, 0)>>} :
        MainStarts(lines)

SpecAspire == InitAspire /\ [][NextSearch]_vars

\* root_search has just been called by an iteration of depth 5 or more: pc tells
\* whether it is the first call of the iteration
RootCalledAtDepth(pc) ==
    /\ Len(stack) = 2
    /\ stack[1].kind = "search"
    /\ stack[1].depth >= 5
    /\ stack[1].pc = pc
    /\ stack[2].kind = "root_search"
    /\ stack[2].pc = "enter"

\* C24: in every iteration at depth >= 5 the first root search runs with the
\* window [previous score - 50, previous score + 50], and a second root search,
\* with the full window, runs only when the first result fell on or outside
\* that window
AspirationWindowSearched ==
    /\ RootCalledAtDepth("aspiration") =>
          /\ stack[2].alpha = stack[1].result.score - 50
          /\ stack[2].beta = stack[1].result.score + 50
    /\ RootCalledAtDepth("searched") =>
          /\ stack[2].alpha = -INF_SCORE
          /\ stack[2].beta = INF_SCORE
          /\ \/ ret.score <= stack[1].result.score - 50
             \/ ret.score >= stack[1].result.score + 50

-----------------------------------------------------------------------------
(* Move ordering classes and the history counters (SpecOrder) *)

\* 1n2k3/P7/8/8/8/3q4/3pP3/3K4 w - - 0 1: white has captures by the king and by a
\* pawn, promotions with and without capture, and quiet moves of the king and of the
\* pawn e2
FenOrder ==
    [pieces |-> <<"1", "n", "2", "k", "3", "/", "P", "7", "/", "8", "/", "8", "/", "8",
                  "/", "3", "q", "4", "/", "3", "p", "P", "3", "/", "3", "K", "4">>,
     turn |-> "w", castle |-> <<"-">>, ep |-> <<"-">>,
     halfmove |-> 0, fullmove |-> 1]

\* the cutoffs noted before the moves are scored
MaxCutoffs == 2

\* the values a history counter of an earlier search may have reached
HistoryLevels == {0, 999999, 1000000}

\* the depths of the nodes that cut off
CutoffDepths == {1, MAX_PLY}

Quiet(m) == m.captured = 0 /\ m.promotion = 0

\* the Searcher has run nodes before: the history counter of the first quiet
\* move has one of the HistoryLevels
InitOrder ==
    /\ bd = set_fen(FenOrder)
    /\ path = <<>>
    /\ last = [op |-> "set_fen", m |-> NullMove, before |-> bd]
    /\ legal = <<>>
    /\ limit = 0
    /\ \E h \in HistoryLevels :
          LET m == SelectSeq(gen_pseudo_moves(bd), Quiet)[1]
          IN searcher = [NewSearcher EXCEPT
                            !.history = (<<piece_side(bd.board[m.from]), m.from, m.to>> :> h)]
    /\ stack = <<>>
    /\ ret = Score(0)
    /\ clock = 0
    /\ events = {}
    /\ todo = <<>>
    /\ out = <<>>
    /\ AppNotLoaded

\* a node at ply 0 was searched and one of its moves cut off: alphabeta counts
\* the node and updates the killers and the history
Cutoff ==
    /\ searcher.nodes < MaxCutoffs
    /\ \E m \in MoveSet(gen_pseudo_moves(bd)), depth \in CutoffDepths :
          /\ searcher' = [CutoffUpdate(searcher, bd, m, 0, depth) EXCEPT !.nodes = @ + 1]
          /\ last' = [op |-> "cutoff", m |-> m, before |-> bd]
    /\ UNCHANGED <<bd, path, legal, limit, stack, ret, clock, events, todo, out>>
    /\ UNCHANGED appVars

NextOrder == Cutoff \/ ScoreMoves

SpecOrder == InitOrder /\ [][NextOrder]_vars

\* the ordering class of the move m at ply 0 with the move tt_move of the table:
\* 1 the TT move, 2 a capture, 3 a promotion without capture, 4 the first killer,
\* 5 the second killer, 6 any other quiet move
ClassOf(m, tt_move) ==
    IF MoveEq(m, tt_move) THEN 1
    ELSE IF m.captured # 0 THEN 2
    ELSE IF m.promotion # 0 THEN 3
    ELSE IF MoveEq(m, KillerAt(searcher, 0, 1)) THEN 4
    ELSE IF MoveEq(m, KillerAt(searcher, 0, 2)) THEN 5
    ELSE 6

ClassesSeparated ==
    last.op = "score_moves" =>
        LET class == [i \in 1..Len(legal) |-> ClassOf(legal[i], last.m)]
        IN \A i, j \in 1..Len(legal) : class[i] < class[j] => last.scores[i] > last.scores[j]

HistoryBounded ==
    \A k \in DOMAIN searcher.history : searcher.history[k] \in 0..1000000

\* C28: in every scored move list a move of an earlier class (TT move, capture,
\* promotion without capture, first killer, second killer, other quiet move) has
\* a strictly higher score than a move of a later class, and every history
\* counter is within 0..1000000 after each cutoff update with its aging step
OrderingClassesSeparated == ClassesSeparated /\ HistoryBounded

\* a list with moves of all six classes is scored after a cutoff update has aged
\* the counters: the counter at 1000000 got 128 * 128 more and was halved
AllClassesScoredAfterAging ==
    /\ last.op = "score_moves"
    /\ {ClassOf(legal[i], last.m) : i \in 1..Len(legal)} = 1..6
    /\ \E k \in DOMAIN searcher.history :
          searcher.history[k] = (1000000 + MAX_PLY * MAX_PLY) \div 2

-----------------------------------------------------------------------------
(* The phase test and what depends on it (SpecPhase) *)

\* 3qk3/8/8/8/8/8/8/QQ2K3 w - - 0 1: three queens and no minor piece; no side has
\* more than two queens
FenThreeQueens ==
    [pieces |-> <<"3", "q", "k", "3", "/", "8", "/", "8", "/", "8", "/", "8", "/", "8",
                  "/", "8", "/", "Q", "Q", "2", "K", "3">>,
     turn |-> "w", castle |-> <<"-">>, ep |-> <<"-">>,
     halfmove |-> 0, fullmove |-> 1]

\* the moves made before a position is evaluated
MaxPhasePath == 1

\* positions with a queen on one side only and three minor pieces, with a queen
\* and one minor piece, without queens, and with three queens
PhaseFens == <<FenEvents, FenMiddlegame, FenQueenCheck, FenShuttle, FenThreeQueens>>

InitPhase ==
    /\ \E i \in 1..Len(PhaseFens) : bd = set_fen(PhaseFens[i])
    /\ path = <<>>
    /\ last = [op |-> "set_fen", m |-> NullMove, before |-> bd]
    /\ legal = <<>>
    /\ limit = MaxPhasePath
    /\ SearcherIdle
    /\ AppNotLoaded

NextPhase == MakeMove \/ UnmakeMove \/ MakeNullMove \/ UnmakeNullMove \/ Evaluate

SpecPhase == InitPhase /\ [][NextPhase]_vars

\* the queens and the minor pieces of one side
QueensOf(b, side) == Cardinality({s \in 0..63 : b.board[s] = piece_sign(side) * PT_QUEEN})

MinorsOf(b, side) ==
    Cardinality({s \in 0..63 : b.board[s] \in {piece_sign(side) * PT_KNIGHT,
                                               piece_sign(side) * PT_BISHOP}})

\* a side has no queens, or each side has at most 2 queens and at most 2 minors
PerSideTest(b) ==
    \/ \E side \in {WHITE_SIDE, BLACK_SIDE} : QueensOf(b, side) = 0
    \/ \A side \in {WHITE_SIDE, BLACK_SIDE} : QueensOf(b, side) <= 2 /\ MinorsOf(b, side) <= 2

\* there is no queen on the board, or there are at most 2 queens and at most 2
\* minor pieces on the board
BoardTest(b) ==
    LET queens == QueensOf(b, WHITE_SIDE) + QueensOf(b, BLACK_SIDE)
        minors == MinorsOf(b, WHITE_SIDE) + MinorsOf(b, BLACK_SIDE)
    IN queens = 0 \/ (queens <= 2 /\ minors <= 2)

\* the score with the king table and the king-shield term as the phase says
ScoreInPhase(b, endgame) == EvalTerms(b, endgame, PawnFiles(b, W_PAWN), PawnFiles(b, B_PAWN))

\* C29 as stated: is_endgame is true exactly when a side has no queens or each
\* side has at most 2 queens and at most 2 minor pieces; evaluate takes the king
\* table and leaves out the king shield by this test, and no null move is made
\* when it is true
PhaseTestPerSide ==
    /\ last.op = "evaluate" =>
          /\ last.endgame = PerSideTest(bd)
          /\ last.score = ScoreInPhase(bd, PerSideTest(bd))
    /\ last.op = "make_null_move" => ~PerSideTest(last.before)

\* C29: is_endgame is true exactly when the board has no queen, or at most 2
\* queens and at most 2 minor pieces, both sides counted together; evaluate takes
\* the endgame king table and leaves out the king-shield term exactly when it is
\* true, and no null move is made when it is true
PhaseTestOnBoard ==
    /\ last.op = "evaluate" =>
          /\ last.endgame = BoardTest(bd)
          /\ last.score = ScoreInPhase(bd, BoardTest(bd))
    /\ last.op = "make_null_move" => ~BoardTest(last.before)

\* a position in which one side has no queen is evaluated as a middlegame, with
\* a king-shield term, after a null move
QueenlessSideInMiddlegame ==
    /\ last.op = "evaluate"
    /\ path # <<>> /\ path[1].null
    /\ ~last.endgame
    /\ \E side \in {WHITE_SIDE, BLACK_SIDE} : QueensOf(bd, side) = 0
    /\ ShieldTerm(bd, WHITE_SIDE) + ShieldTerm(bd, BLACK_SIDE) # 0
    /\ last.score # ScoreInPhase(bd, TRUE)

-----------------------------------------------------------------------------
(* app.js: the browser controller and its API requests (SpecApp).  An async   *)
(* method runs up to its next await in one step.  A GameState is [rev, turn,  *)
(* is_game_over]; rev counts the changes of the game on the backend and       *)
(* stands for the position and the move list the GameState carries.  The      *)
(* promotion modal is taken to cover the board and the buttons while it is    *)
(* visible.                                                                   *)

\* the changes of the game the backend makes, and the async calls in progress
MaxRev == 4
MaxCalls == 2

StateChanging == {"/api/new-game", "/api/move", "/api/ai-move", "/api/undo"}

\* an async method that has sent its request and awaits _api
Awaiting(fn, endpoint) == [fn |-> fn, pc |-> "sent", endpoint |-> endpoint, data |-> <<>>]

\* the page is loaded: the constructor has run, the start screen is shown
InitApp ==
    /\ bd = NewBoard
    /\ path = <<>>
    /\ last = [op |-> "Board", m |-> NullMove, before |-> NewBoard]
    /\ legal = <<>>
    /\ limit = 0
    /\ SearcherIdle
    /\ app = [busy |-> FALSE, state |-> <<>>, screen |-> "start", modal |-> FALSE]
    /\ calls = <<>>
    /\ server = NoGame

\* the click handler of play-btn: the game screen is shown and startGame called,
\* which sets busy and posts /api/new-game
PlayClick ==
    /\ app.screen = "start"
    /\ Len(calls) < MaxCalls
    /\ app' = [app EXCEPT !.screen = "game", !.busy = TRUE]
    /\ calls' = Append(calls, Awaiting("startGame", "/api/new-game"))
    /\ UNCHANGED <<bd, boardVars, searchVars, server>>

\* the click handler of new-game-btn: _showStart
NewGameClick ==
    /\ app.screen = "game"
    /\ ~app.modal
    /\ app' = [app EXCEPT !.screen = "start"]
    /\ UNCHANGED <<bd, boardVars, searchVars, calls, server>>

\* undo, from the click on undo-btn; it returns at once when busy
UndoClick ==
    /\ app.screen = "game"
    /\ ~app.modal
    /\ ~app.busy
    /\ Len(calls) < MaxCalls
    /\ app' = [app EXCEPT !.busy = TRUE]
    /\ calls' = Append(calls, Awaiting("undo", "/api/undo"))
    /\ UNCHANGED <<bd, boardVars, searchVars, server>>

\* _onClick on the target square of a legal move of the selected piece: it calls
\* makeMove, which asks for the promotion piece first when a pawn reaches the
\* eighth rank and sets busy and posts /api/move otherwise
OnClick ==
    /\ app.screen = "game"
    /\ ~app.modal
    /\ ~(app.busy \/ app.state = <<>> \/ app.state.is_game_over)
    /\ app.state.turn = "white"
    /\ Len(calls) < MaxCalls
    /\ \E promotes \in BOOLEAN :
          IF promotes
          THEN /\ app' = [app EXCEPT !.modal = TRUE]
               /\ calls' = Append(calls, [fn |-> "makeMove", pc |-> "promotion",
                                          endpoint |-> "/api/move", data |-> <<>>])
          ELSE /\ app' = [app EXCEPT !.busy = TRUE]
               /\ calls' = Append(calls, Awaiting("makeMove", "/api/move"))
    /\ UNCHANGED <<bd, boardVars, searchVars, server>>

\* a click on a piece of the promotion modal resolves _showPromotion: makeMove
\* sets busy and posts /api/move
PromotionChosen ==
    /\ \E i \in 1..Len(calls) :
          /\ calls[i].pc = "promotion"
          /\ calls' = [calls EXCEPT ![i] = Awaiting("makeMove", "/api/move")]
    /\ app' = [app EXCEPT !.modal = FALSE, !.busy = TRUE]
    /\ UNCHANGED <<bd, boardVars, searchVars, server>>

\* the game after the backend has served the request
Served(game, endpoint, over) ==
    CASE endpoint = "/api/new-game" ->
            [rev |-> game.rev + 1, turn |-> "white", is_game_over |-> FALSE]
      [] endpoint = "/api/move" ->
            [rev |-> game.rev + 1, turn |-> "black", is_game_over |-> over]
      [] endpoint = "/api/ai-move" ->
            [rev |-> game.rev + 1, turn |-> "white", is_game_over |-> over]
      [] endpoint = "/api/undo" ->
            [rev |-> game.rev + 1, turn |-> "white", is_game_over |-> FALSE]
      [] OTHER -> game

\* the backend can serve the request: a move needs a running game and the turn
\* of the side that moves
Servable(game, endpoint) ==
    CASE endpoint = "/api/move" -> game.rev > 0 /\ ~game.is_game_over /\ game.turn = "white"
      [] endpoint = "/api/ai-move" -> game.rev > 0 /\ ~game.is_game_over /\ game.turn = "black"
      [] endpoint = "/api/undo" -> game.rev > 0
      [] OTHER -> TRUE

\* the backend answers a request: with the GameState after serving it, or with
\* an error, which _api turns into null
BackendAnswers ==
    /\ \E i \in 1..Len(calls) :
          /\ calls[i].pc = "sent"
          /\ \E ok \in BOOLEAN, over \in BOOLEAN :
                IF ok /\ Servable(server, calls[i].endpoint)
                   /\ (calls[i].endpoint \in StateChanging => server.rev < MaxRev)
                THEN /\ server' = Served(server, calls[i].endpoint, over)
                     /\ calls' = [calls EXCEPT ![i].pc = "answered", ![i].data = server']
                ELSE /\ server' = server
                     /\ calls' = [calls EXCEPT ![i].pc = "answered", ![i].data = <<>>]
    /\ UNCHANGED <<bd, boardVars, searchVars, app>>

Without(s, i) == SubSeq(s, 1, i - 1) \o SubSeq(s, i + 1, Len(s))

\* the response arrives and the method goes on after its await, up to its next
\* await or its end
Resume ==
    /\ \E i \in 1..Len(calls) :
          LET c == calls[i]
              data == c.data
              shown == IF data # <<>> THEN [app EXCEPT !.state = data] ELSE app
          IN /\ c.pc = "answered"
             /\ CASE c.fn = "startGame" ->
                       IF data # <<>> /\ data.turn # "white" /\ ~data.is_game_over
                       THEN /\ app' = [shown EXCEPT !.busy = TRUE]
                            /\ calls' = [calls EXCEPT ![i] = Awaiting("_doAiMove", "/api/ai-move")]
                       ELSE /\ app' = [shown EXCEPT !.busy = FALSE]
                            /\ calls' = Without(calls, i)
                  [] c.fn = "makeMove" ->
                       IF data = <<>>
                       THEN /\ app' = [app EXCEPT !.busy = FALSE]
                            /\ calls' = [calls EXCEPT ![i] = Awaiting("_resync", "/api/state")]
                       ELSE IF data.is_game_over
                       THEN /\ app' = [shown EXCEPT !.busy = FALSE]
                            /\ calls' = Without(calls, i)
                       ELSE /\ app' = [shown EXCEPT !.busy = TRUE]
                            /\ calls' = [calls EXCEPT ![i] = Awaiting("_doAiMove", "/api/ai-move")]
                  [] c.fn = "_doAiMove" ->
                       IF data # <<>>
                       THEN /\ app' = [shown EXCEPT !.busy = FALSE]
                            /\ calls' = Without(calls, i)
                       ELSE /\ app' = [app EXCEPT !.busy = FALSE]
                            /\ calls' = [calls EXCEPT ![i] = Awaiting("_resync", "/api/state")]
                  [] c.fn = "undo" ->
                       /\ app' = [shown EXCEPT !.busy = FALSE]
                       /\ calls' = Without(calls, i)
                  [] c.fn = "_resync" ->
                       /\ app' = shown
                       /\ calls' = Without(calls, i)
    /\ UNCHANGED <<bd, boardVars, searchVars, server>>

NextApp ==
    PlayClick \/ NewGameClick \/ UndoClick \/ OnClick \/ PromotionChosen \/ BackendAnswers
        \/ Resume

SpecApp == InitApp /\ [][NextApp]_vars

\* the state-changing requests sent and not yet answered to the controller
Outstanding ==
    {i \in 1..Len(calls) : calls[i].pc \in {"sent", "answered"}
                           /\ calls[i].endpoint \in StateChanging}

\* C30: at no time are two state-changing API requests outstanding, and the
\* GameState the controller holds is never replaced by an older one
OneRequestAtATime ==
    [][/\ Cardinality(Outstanding') <= 1
       /\ (app.state # <<>> /\ app'.state # <<>>) => app'.state.rev >= app.state.rev]_vars

====
